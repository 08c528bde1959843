-------------------------- MODULE JournalContract --------------------------
(***************************************************************************)
(* What the usage journal promises (the trait UsageJournal and its errors  *)
(* in crates/gateway/src/usage/journal.rs) of the entries it accepts, for  *)
(* every consumer: an entry is acknowledged only after the destination has *)
(* it; its one verdict, acknowledged or quarantined, is final; and it is   *)
(* forgotten only when every registered consumer acknowledged it, or it is *)
(* counted as lost.                                                        *)
(***************************************************************************)
EXTENDS Naturals, FiniteSets

CONSTANTS Entries, Consumers

VARIABLES
  kept,        \* the entries the journal holds
  registered,  \* the consumers that have claimed
  served,      \* per consumer: the entries its destination has
  verdict,     \* per entry and consumer
  lost         \* how many entries were given up

vars == <<kept, registered, served, verdict, lost>>

Init ==
  /\ kept = {} /\ registered = {} /\ lost = 0
  /\ served = [c \in Consumers |-> {}]
  /\ verdict = [p \in Entries |-> [c \in Consumers |-> "none"]]

\* Entries New are accepted and Old forgotten, of which Given are given up.
Turnover ==
  /\ UNCHANGED <<registered, served>>
  /\ \E New \in {{}} \cup {{p} : p \in Entries \ kept}, Old \in SUBSET kept :
       /\ kept' = (kept \ Old) \cup New
       /\ verdict' = [p \in Entries |->
            IF p \in Old THEN [c \in Consumers |-> "none"] ELSE verdict[p]]
       /\ \E Given \in SUBSET Old :
            /\ lost' = lost + Cardinality(Given)
            /\ \A p \in Old \ Given :
                 registered # {} /\ \A c \in registered : verdict[p][c] = "ack"

Serve(c) ==
  /\ UNCHANGED <<kept, registered, verdict, lost>>
  /\ \E P \in SUBSET Entries : served' = [served EXCEPT ![c] = @ \cup P]

\* Consumer c claims or judges: entries it has no verdict of get theirs.
Judge(c) ==
  /\ UNCHANGED <<kept, served, lost>>
  /\ registered' \in {registered, registered \cup {c}}
  /\ \E Acked \in SUBSET (kept \cap served[c]) : \E Poison \in SUBSET (kept \ Acked) :
       /\ \A p \in Acked \cup Poison : verdict[p][c] = "none"
       /\ verdict' = [p \in Entries |-> [verdict[p] EXCEPT ![c] =
            CASE p \in Acked -> "ack" [] p \in Poison -> "poison" [] OTHER -> @]]

Next == Turnover \/ \E c \in Consumers : Serve(c) \/ Judge(c)

Spec == Init /\ [][Next]_vars
=============================================================================
