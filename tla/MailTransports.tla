--------------------------- MODULE MailTransports ---------------------------
(***************************************************************************)
(* The provider adapters of the mailer as functions: how the answer to a   *)
(* send is read, and which event a webhook notification becomes.           *)
(*                                                                         *)
(* Signatures are taken as verified, and payload formats are abstracted to *)
(* the fields the mappers branch on: the kind of notification, whether a   *)
(* bounce is permanent, the message it is about, its own id.               *)
(***************************************************************************)

Webhookers == {"ses", "postmark", "resend"}

Providers == Webhookers \union {"smtp", "dev-memory"}

(***************************************************************************)
(* transport.send.                                                         *)
(***************************************************************************)

\* What comes of a call of a provider's SDK: it resolves with an id or without one, with
\* an error that says wait (throttled, serverError) or no (refused), or it throws, for a
\* refusal (rejected) or because nothing came back: network, an error whose name or code
\* some adapter lists (NetworkingError, ETIMEDOUT), or socket, one that none lists
\* (TimeoutError, ESOCKET, EDNS).
Answers ==
    {"id", "noId", "throttled", "serverError", "refused", "rejected", "network", "socket"}

\* After these the provider may have accepted the message all the same.
Silent == {"network", "socket"}

Retry(answer, answers) == IF answer \in answers THEN "retryable" ELSE "fatal"

\* Status and error name decide, so that a socket error is final; the id is tested.
SesSend(answer) ==
    IF answer = "id" THEN "ok"
    ELSE Retry(answer, {"noId", "throttled", "serverError", "network"})

\* Two error names stand for a status; whatever is thrown is retried; the id is tested.
ResendSend(answer) ==
    IF answer = "id" THEN "ok"
    ELSE Retry(answer, {"noId", "throttled", "serverError", "rejected", "network", "socket"})

\* Three codes of the answer and whatever is thrown; the id is not tested.
PostmarkSend(answer) ==
    IF answer \in {"id", "noId"} THEN "ok"
    ELSE Retry(answer, {"throttled", "serverError", "rejected", "network", "socket"})

\* A reply code of 4xx, or one of three codes of the connection (ECONNECTION, ETIMEDOUT,
\* ECONNRESET); any other error is final.  The id is not tested.
SmtpSend(answer) ==
    IF answer \in {"id", "noId"} THEN "ok" ELSE Retry(answer, {"throttled", "network"})

DevMemorySend(answer) == "ok"

SendResult(provider, answer) ==
    CASE provider = "ses"        -> SesSend(answer)
      [] provider = "resend"     -> ResendSend(answer)
      [] provider = "postmark"   -> PostmarkSend(answer)
      [] provider = "smtp"       -> SmtpSend(answer)
      [] provider = "dev-memory" -> DevMemorySend(answer)

(***************************************************************************)
(* verifyWebhook: notification to event, [type, message, id]; no event for *)
(* a kind the mapper does not know.                                        *)
(***************************************************************************)

Kinds == {"delivery", "bounce", "complaint", "open", "click", "other"}

BounceType(n) == IF n.permanent THEN "bounced.hard" ELSE "bounced.soft"

KindType(n) ==
    CASE n.kind = "bounce"    -> BounceType(n)
      [] n.kind = "delivery"  -> "delivered"
      [] n.kind = "complaint" -> "complained"
      [] n.kind = "open"      -> "opened"
      [] n.kind = "click"     -> "clicked"
      [] OTHER                -> "none"

Event(n, id) == [type |-> KindType(n), message |-> n.message, id |-> id]

\* The id of the SNS envelope.
SesEvent(n) == Event(n, [ref |-> n.id, kind |-> "any"])

\* The svix id.
ResendEvent(n) == Event(n, [ref |-> n.id, kind |-> "any"])

\* Postmark's own number and the kind; deliveries, opens and clicks have no number, and
\* theirs is the message and the kind.
PostmarkEvent(n) ==
    Event(n, [ref |-> IF n.kind \in {"bounce", "complaint"} THEN n.id ELSE n.message,
              kind |-> n.kind])

EventOf(provider, n) ==
    CASE provider = "ses"      -> SesEvent(n)
      [] provider = "resend"   -> ResendEvent(n)
      [] provider = "postmark" -> PostmarkEvent(n)

EventType(provider, n) == EventOf(provider, n).type

EventId(provider, n) == EventOf(provider, n).id

=============================================================================
