------------------------------ MODULE PublishOnce ------------------------------
(***************************************************************************)
(* What a real publication promises its caller, per idempotency key: the   *)
(* key is handled once; for it at most one resource of each kind is made   *)
(* at Meta; "published" is answered only when all of them were made; and   *)
(* an answer, once given, is final.  A create that got no answer ends in   *)
(* "failed" or in no answer at all, and its resource may arrive later.     *)
(***************************************************************************)
CONSTANTS Keys, Kinds

VARIABLES phase,   \* phase[k]: where the publication of key k is
          made,    \* the resources made so far: their id, kind and key
          pending  \* the keys with one create that was lost and may still arrive

Answers == {"rejected", "published", "failed", "requires_manual_review"}
Phases  == {"new", "working"} \cup Answers

vars == <<phase, made, pending>>

\* The kinds of resources made for a key.
MadeFor(k) == {o.kind : o \in {r \in made : r.key = k}}

Begin(k) ==
  /\ phase[k] = "new"
  /\ phase' = [phase EXCEPT ![k] = "working"]
  /\ UNCHANGED <<made, pending>>

Refuse(k) ==
  /\ phase[k] = "new"
  /\ phase' = [phase EXCEPT ![k] = "rejected"]
  /\ UNCHANGED <<made, pending>>

\* Never a second resource of one kind for one key; the id is whatever Meta chose.
Adds(k) == \E o \in made' \ made : /\ o.key = k
                                 /\ o.kind \in Kinds \ MadeFor(k)
                                 /\ made' = made \cup {o}

Make(k) ==
  /\ phase[k] = "working"
  /\ k \notin pending
  /\ Adds(k)
  /\ UNCHANGED <<phase, pending>>

\* After a lost create nothing more is made, but for the create itself.
Lose(k) ==
  /\ phase[k] = "working"
  /\ k \notin pending
  /\ pending' = pending \cup {k}
  /\ UNCHANGED <<phase, made>>

Arrive(k) ==
  /\ phase[k] \in {"working", "failed"}
  /\ k \in pending
  /\ Adds(k)
  /\ pending' = pending \ {k}
  /\ UNCHANGED phase

Answer(k, answer) ==
  /\ phase[k] = "working"
  /\ answer = "published" => MadeFor(k) = Kinds
  /\ k \in pending => answer = "failed"
  /\ phase' = [phase EXCEPT ![k] = answer]
  /\ UNCHANGED <<made, pending>>

Init == /\ phase = [k \in Keys |-> "new"]
        /\ made = {}
        /\ pending = {}

Next == \E k \in Keys : \/ Begin(k)
                        \/ Refuse(k)
                        \/ Make(k) \/ Lose(k) \/ Arrive(k)
                        \/ \E answer \in Answers \ {"rejected"} : Answer(k, answer)

Spec == Init /\ [][Next]_vars
=============================================================================
