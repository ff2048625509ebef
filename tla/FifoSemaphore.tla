---------------------------- MODULE FifoSemaphore ----------------------------
(***************************************************************************)
(* What a concurrency queue promises its callers, with nothing of how it   *)
(* keeps the promise: Slots slots, one line, and a slot that becomes free  *)
(* goes to whoever has stood in the line longest.  Members of the line may *)
(* give up, one or several at a time.                                      *)
(***************************************************************************)
EXTENDS Arrays

CONSTANTS Clients,  \* the calls that ever ask for a slot
          Slots     \* the number of slots

VARIABLES holders,  \* clients that hold a slot
          line,     \* clients that wait, longest first
          gone      \* clients that gave their slot back, gave up or were refused

semVars == <<holders, line, gone>>

TypeOK ==
    /\ holders \subseteq Clients
    /\ line \in Seq(Clients)
    /\ gone \subseteq Clients

Init ==
    /\ holders = {}
    /\ line = <<>>
    /\ gone = {}

\* A client that has not asked yet.
New(c) == c \notin holders \cup Elements(line) \cup gone

Refuse(c) ==
    /\ New(c)
    /\ gone' = gone \cup {c}
    /\ UNCHANGED <<holders, line>>

Take(c) ==
    /\ New(c)
    /\ line = <<>>
    /\ Cardinality(holders) < Slots
    /\ holders' = holders \cup {c}
    /\ UNCHANGED <<line, gone>>

Join(c) ==
    /\ New(c)
    /\ Cardinality(holders) = Slots
    /\ line' = Append(line, c)
    /\ UNCHANGED <<holders, gone>>

GiveUp(S) ==
    /\ S # {}
    /\ S \subseteq Elements(line)
    /\ line' = Only(line, Clients \ S)
    /\ gone' = gone \cup S
    /\ UNCHANGED holders

Finish(c) ==
    /\ c \in holders
    /\ gone' = gone \cup {c}
    /\ \/ /\ line = <<>>
          /\ holders' = holders \ {c}
          /\ UNCHANGED line
       \/ /\ line # <<>>
          /\ holders' = (holders \ {c}) \cup {Head(line)}
          /\ line' = Tail(line)

Next ==
    \/ \E c \in Clients : Refuse(c) \/ Take(c) \/ Join(c) \/ Finish(c)
    \/ \E S \in SUBSET Clients : GiveUp(S)

\* Holders do not keep their slot for ever; clients never have to ask or give up.
Spec == Init /\ [][Next]_semVars /\ \A c \in Clients : WF_semVars(Finish(c))
=============================================================================
