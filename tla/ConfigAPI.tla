----------------------------- MODULE ConfigAPI -----------------------------
(***************************************************************************)
(* What the handlers of the configuration API (src/httpapi/httpapi.go)     *)
(* answer.  The errors of the services become statuses here, and some of   *)
(* them stand for several things that went wrong.                          *)
(*                                                                         *)
(* An answer ends a request.  It depends on the step that does so, which   *)
(* ConfigService describes, and nothing depends on it: answers need no     *)
(* state.                                                                  *)
(***************************************************************************)
EXTENDS ConfigService

Statuses == {200, 201, 204, 400, 404, 409, 500}

Success(q) ==
    CASE q.op = "create" -> 201
      [] q.op = "update" -> 200
      [] q.op = "delete" -> 204

(* A missing authorizer is an error the handler of creations does not know *)
(* and that of updates does; an update of CORS does not know its own.      *)
MissingAuthorizer(q) == IF q.op = "create" THEN 500 ELSE 400

Rejected(step, q, s) ==
    CASE step = "absent"     -> 409
      [] step = "present"    -> 404
      [] step = "same"       -> IF s[q.key] = Absent THEN 404
                                ELSE IF q.body.kind = "subscription" THEN 400 ELSE 500
      [] step = "authorizer" -> MissingAuthorizer(q)
      [] OTHER               -> 400

(* The store could not be read.  UpdateFunction takes this for a missing   *)
(* function, and so do the checks of authorizers; a path that is refused   *)
(* without the list is refused as one in conflict.                         *)
Unread(step, q) ==
    CASE step = "present" /\ q.op = "update" /\ q.body.kind = "function" -> 404
      [] step = "authorizer" -> MissingAuthorizer(q)
      [] step = "noConflict" -> 400
      [] OTHER               -> 500

(* Mutant: an update that cannot be written is taken for a missing object, *)
(* as a deletion is.                                                       *)
UnwrittenNotFound(q) == IF q.op = "create" THEN 500 ELSE 404

(* The store refused to write, or the answer was lost.                     *)
Unwritten(q) == IF q.op = "delete" THEN 404 ELSE 500

(* The step that is taken, the last one of h, answers with this status.    *)
Answered(h, status) ==
    \/ status = Rejected(Step(h), req[h], store) /\ Check(h)
    \/ status = Unread(Step(h), req[h]) /\ CheckError(h)
    \/ status = Unwritten(req[h]) /\ (WriteRefused(h) \/ WriteError(h))
    \/ status = Success(req[h]) /\ (Write(h) \/ Metric(h))

----------------------------------------------------------------------------
(* Properties.                                                             *)

Asked(q) == IF q.op = "delete" THEN Absent ELSE q.body

(* What a client may conclude from a status, whatever other requests do    *)
(* meanwhile and whatever fails.                                           *)
Truthful(h, status) ==
    LET q == req[h]
    IN  /\ status \in {200, 201, 204} => store'[q.key] = Asked(q) \/ q.key \in stale[h]
        /\ status \in {400, 404, 409} =>
            \/ \A i \in 1..q.at : Steps(q)[i] \in Checks
            \/ q.op = "delete" /\ status = 404
        /\ status = 409 => store[q.key] # Absent
        /\ status = 404 => \/ store'[q.key] = Absent
                           \/ q.op = "delete"
                           \/ q.op = "update" /\ q.body.kind = "function"

(* A success says that the store holds what was asked for, unless another  *)
(* request wrote the same key meanwhile.  A status in the 400s says that   *)
(* the request wrote nothing; only a deletion may answer 404 and have      *)
(* deleted, its answer from the store being lost.  409 says that the       *)
(* object exists, 404 that it does not, except from the deletions and the  *)
(* update of functions when the store fails.                               *)
AnswersTrue ==
    [][\A h \in Handlers : Active(h) /\ req'[h] = Idle =>
          \A status \in Statuses : Answered(h, status) => Truthful(h, status)]_vars
=============================================================================
