---------------------------- MODULE RealPublishOnce ----------------------------
(* How RealPublish implements PublishOnce: the phase of a key is the result  *)
(* stored in its attempt, what was made for it are the resources that carry  *)
(* its tag, and it is pending while a create for it is underway.             *)
EXTENDS RealPublish

\* The key a tag was cut from.
KeyOf(tag) == CHOOSE k \in Keys : TagOf[k] = tag

Phase(result) == CASE result = "none"        -> "new"
                   [] result = "in_progress" -> "working"
                   [] OTHER                  -> result

AsMade(o) == [id |-> o.id, kind |-> o.kind, key |-> KeyOf(o.tag)]

Once == INSTANCE PublishOnce
          WITH phase <- [k \in Keys |-> Phase(attempt[k])],
               made  <- {AsMade(o) : o \in meta},
               pending <- {run[p].key : p \in underway}

\* With no task deliveries and keys whose tags stay apart, publish_real and the
\* publisher implement PublishOnce, whatever is lost, refused or interrupted.
ImplementsPublishOnce == Once!Spec
=============================================================================
