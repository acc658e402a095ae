--------------------------- MODULE PublishedHead ---------------------------
(***************************************************************************)
(* What the editor kernel promises about publication, without runs: a      *)
(* document session has a head, edits advance it, and what is published is *)
(* at every moment a text that was the head of this very session when it   *)
(* was published.  A new session starts unpublished.                       *)
(***************************************************************************)
EXTENDS Integers

CONSTANTS
  Documents, Sources, NoSource,
  MaxSessions   \* bound on the session numbers

VARIABLES
  head,       \* [session, revision, source] of each document, session 0 if not open
  published   \* [revision, source] last published in that session, revision 0 if none

Unpublished == [revision |-> 0, source |-> NoSource]

Init ==
  /\ head = [d \in Documents |-> [session |-> 0, revision |-> 0, source |-> NoSource]]
  /\ published = [d \in Documents |-> Unpublished]

(* A session number is never used twice, by any document.                  *)
NewSession(d, session, source) ==
  /\ \A e \in Documents : head[e].session < session
  /\ head' = [head EXCEPT ![d] = [session |-> session, revision |-> 1, source |-> source]]
  /\ published' = [published EXCEPT ![d] = Unpublished]

Edit(d, source) ==
  /\ head[d].session # 0
  /\ head' = [head EXCEPT ![d].revision = @ + 1, ![d].source = source]
  /\ UNCHANGED published

Publish(d) ==
  /\ head[d].session # 0
  /\ published' = [published EXCEPT
       ![d] = [revision |-> head[d].revision, source |-> head[d].source]]
  /\ UNCHANGED head

Next ==
  \E d \in Documents :
    \/ \E session \in 1..MaxSessions, source \in Sources : NewSession(d, session, source)
    \/ \E source \in Sources : Edit(d, source)
    \/ Publish(d)

Spec == Init /\ [][Next]_<<head, published>>
============================================================================
