------------------------- MODULE MCBackgroundLauncher -------------------------
(***************************************************************************)
(* Small instances of BackgroundLauncher: one launcher in the middle of    *)
(* two servers that start by themselves or by its installation, and two    *)
(* launchers one after the other.                                          *)
(***************************************************************************)
EXTENDS BackgroundLauncher

CONSTANTS l1, l2, w1, w2

OneLauncher == {l1}
TwoLaunchers == {l1, l2}
TwoWorkers == {w1, w2}
OneLauncherProcs == OneLauncher \cup TwoWorkers
TwoLaunchersProcs == TwoLaunchers \cup TwoWorkers
=============================================================================
