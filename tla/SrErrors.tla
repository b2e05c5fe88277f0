------------------------------- MODULE SrErrors -------------------------------
(***************************************************************************)
(* The errors of the registry (error.rs): the number a client reads in the *)
(* body of an answer, and the HTTP status of the answer.                   *)
(***************************************************************************)
EXTENDS Naturals

error_code ==
    [NotFound |-> 404, MethodNotAllowed |-> 405, Forbidden |-> 40301, InvalidRequest |-> 400,
     ForwardFailed |-> 50003, UnknownLeader |-> 50004,
     SubjectNotFound |-> 40401, VersionNotFound |-> 40402, SchemaNotFound |-> 40403,
     InvalidSchema |-> 42201, ReferenceNotFound |-> 42201, InvalidVersion |-> 42202,
     InvalidCompatibilityLevel |-> 42203, Backend |-> 50001, OperationTimedOut |-> 50002,
     Incompatible |-> 409, OperationNotPermitted |-> 42205, SchemaIdConflict |-> 42205,
     SubjectNotSoftDeleted |-> 40405, VersionNotSoftDeleted |-> 40407, InvalidMode |-> 42204,
     SubjectSoftDeleted |-> 40404, SubjectModeNotConfigured |-> 40409,
     ReferencedByOthers |-> 42206]

SrError == DOMAIN error_code

http_status(e) ==
    CASE e = "MethodNotAllowed" -> 405
      [] e = "Forbidden" -> 403
      [] e = "InvalidRequest" -> 400
      [] e \in {"NotFound", "SubjectNotFound", "VersionNotFound", "SchemaNotFound",
                "SubjectNotSoftDeleted", "VersionNotSoftDeleted", "SubjectSoftDeleted",
                "SubjectModeNotConfigured"} -> 404
      [] e \in {"InvalidSchema", "InvalidVersion", "InvalidCompatibilityLevel",
                "OperationNotPermitted", "SchemaIdConflict", "InvalidMode",
                "ReferenceNotFound", "ReferencedByOthers"} -> 422
      [] e \in {"Backend", "OperationTimedOut", "ForwardFailed", "UnknownLeader"} -> 500
      [] e = "Incompatible" -> 409

===============================================================================
