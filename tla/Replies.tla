------------------------------- MODULE Replies -------------------------------
(***************************************************************************)
(* How an outcome crosses the wire: transport/envelope.rs says which HTTP  *)
(* status and which OCPI status code an error is answered with,            *)
(* server/error.rs writes it, and client/http.rs makes an outcome of what  *)
(* it reads. The two directions are not inverse: several errors share a    *)
(* status, and a client knows most of them only by their code.             *)
(***************************************************************************)
EXTENDS Wire

None == "none"

(* A document is the object it is and the version it is written in.         *)
Doc(is, version) == [is |-> is, version |-> version]
NoDoc == Doc(None, Canonical)

-----------------------------------------------------------------------------
(* Status codes.                                                            *)

Success == 1000
ClientError == 2000
InvalidParameters == 2001
ServerError == 3000
NoCode == 0        \* of an answer that is no envelope
Codes == 0..65535  \* a u16

Class(code) ==
    CASE code \in 1000..1999 -> "Success"
      [] code \in 2000..2999 -> "ClientError"
      [] code \in 3000..3999 -> "ServerError"
      [] code \in 4000..4999 -> "HubError"
      [] OTHER               -> "Unknown"

IsSuccess(code) == Class(code) = "Success"

-----------------------------------------------------------------------------
(* Outcomes of a handler or of a call: Ok, or an OcpiError. The code is the *)
(* peer's, for the two errors that carry one.                               *)

Ok == [is |-> "ok", code |-> Success]
Err(is) == [is |-> is, code |-> NoCode]
Remote(code) == [is |-> "Remote", code |-> code]
MissingData(code) == [is |-> "MissingData", code |-> code]

OcpiErrors(codes) ==
    {Err(is) : is \in {"MalformedJson", "Decode", "Invalid", "Unauthorized", "TokenAOutOfScope",
                       "NotFound", "MethodNotAllowed", "Transport", "Timeout", "NotRoutable",
                       "Unsupported", "UrlRefused"}}
    \cup {Remote(code) : code \in codes}
    \cup {MissingData(code) : code \in {c \in codes : IsSuccess(c)}}

StatusCode(outcome) ==
    CASE outcome.is \in {"ok", "Remote", "MissingData"} -> outcome.code
      [] outcome.is \in {"MalformedJson", "Decode", "Invalid", "NotRoutable"} -> InvalidParameters
      [] outcome.is \in {"Unauthorized", "TokenAOutOfScope", "NotFound", "MethodNotAllowed"}
           -> ClientError
      [] OTHER -> ServerError

(* Plausible slip: a refused method is a conflict.                          *)
HttpStatus_Conflict(error) ==
    CASE error.is = "MalformedJson"                        -> 400
      [] error.is \in {"Unauthorized", "TokenAOutOfScope"} -> 401
      [] error.is = "NotFound"                             -> 404
      [] error.is = "MethodNotAllowed"                     -> 409
      [] OTHER                                             -> 200

(* Whatever reached the OCPI layer is a 200.                                *)
HttpStatus(error) ==
    CASE error.is = "MalformedJson"                        -> 400
      [] error.is \in {"Unauthorized", "TokenAOutOfScope"} -> 401
      [] error.is = "NotFound"                             -> 404
      [] error.is = "MethodNotAllowed"                     -> 405
      [] OTHER                                             -> 200

-----------------------------------------------------------------------------
(* What a server sends: OcpiReply, OcpiErrorResponse, or axum's own.        *)

Reply(http, data) == [http |-> http, code |-> Success, data |-> data]
ErrorResponse(error) == [http |-> HttpStatus(error), code |-> StatusCode(error), data |-> NoDoc]
Bounced(http) == [http |-> http, code |-> NoCode, data |-> NoDoc]

-----------------------------------------------------------------------------
(* What a client makes of it: attempt(), then what became of the envelope.  *)

ReadError(http) ==
    CASE http = 400 -> Err("MalformedJson")
      [] http = 401 -> Err("Unauthorized")
      [] http = 404 -> Err("NotFound")
      [] http = 405 -> Err("MethodNotAllowed")
      [] OTHER      -> Err("Transport")

ExpectSuccess(answer) == IF IsSuccess(answer.code) THEN Ok ELSE Remote(answer.code)

(* An object that should have come with it.                                 *)
IntoResult(answer) ==
    IF IsSuccess(answer.code) /\ answer.data = NoDoc THEN MissingData(answer.code)
    ELSE ExpectSuccess(answer)

(* Plausible slip: HTTP 200 is taken for success.                           *)
Outcome_ByHttp(answer, wants, fits) ==
    IF answer.http \notin 200..299 THEN ReadError(answer.http)
    ELSE IF wants # None /\ answer.data # NoDoc /\ ~fits THEN Err("Decode")
    ELSE Ok

(* A list without data is empty, an object without data is missing, and of  *)
(* what a call wants nothing of only the code is looked at.                 *)
Outcome(answer, wants, fits) ==
    IF answer.http \notin 200..299 THEN ReadError(answer.http)
    ELSE CASE wants = None \/ wants = "list" -> 
                IF answer.data # NoDoc /\ wants = "list" /\ ~fits THEN Err("Decode")
                ELSE ExpectSuccess(answer)
           [] OTHER -> IF answer.data # NoDoc /\ ~fits THEN Err("Decode") ELSE IntoResult(answer)
=============================================================================
