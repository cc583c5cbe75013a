------------------------------ MODULE GuestSdk ------------------------------
(***************************************************************************)
(* The C guest kit, crates/guestfn/templates/c/src: wasmfn.c, the glue     *)
(* between the host's run call and the author's run_function and the HTTP  *)
(* client over wasi:http's resources, and fn.c, the function a new project *)
(* starts with.                                                            *)
(*                                                                         *)
(* The host hands out handles to its resources.  Dropping one gives it     *)
(* back, some calls take one over, and the host traps the guest that names *)
(* a handle it no longer has or gives one back before those made from it.  *)
(* A call of the host may fail wherever the code looks at its answer, and  *)
(* so may an allocation.  Error texts are left out.  A fresh instance      *)
(* serves each request, so that memory is not freed and the handles of a   *)
(* failed request are left to the host.                                    *)
(***************************************************************************)
EXTENDS Naturals, SequencesExt

CONSTANTS
  None, Trap, Error,
  Names,      \* names of desired resources
  Greeting,   \* the one fn.c composes
  MaxSends,   \* bound: HTTP requests of one run
  MaxChunks,  \* bound: chunks of a request body
  MaxChunk,   \* bound: bytes of a chunk of a response body
  MaxBody     \* bound: bytes of a response body

ASSUME GreetingNamed == Greeting \in Names
ASSUME BoundsPositive == MaxSends \in Nat \ {0} /\ MaxChunks \in Nat /\ MaxBody \in Nat /\ MaxChunk \in Nat

VARIABLES
  req,     \* what of the request decides the course of run_function
  rsp,     \* the response under construction
  reply,   \* what run returns: a response, or Error for its error string
  pc,
  table,   \* the host's table: the handles this request has, or Trap
  chunks,  \* the chunks of the request body still to be written
  room,    \* the bytes allocated for the response body, 0 for none
  len,     \* the bytes of it read
  sends    \* how many HTTP requests were made

kitVars == <<req, rsp, reply, pc, table, chunks, room, len, sends>>
message == <<req, rsp, reply>>
buffer == <<room, len>>

-----------------------------------------------------------------------------
(* The host's resources *)

\* What a handle was made from, when it must be given back first.
Parent == [stream |-> "body", ready |-> "future", headers |-> "response", input |-> "incoming"]
Handles == {"fields", "request", "body", "stream", "future", "ready", "response", "headers",
            "incoming", "input", "trailers"}

ASSUME TrapIsNoTable == \A t \in SUBSET Handles : t # Trap

New(h) == [call |-> "new", handle |-> h]
Use(h) == [call |-> "use", handle |-> h]
Give(h) == [call |-> "give", handle |-> h]  \* dropped, or taken over by the call

Children(t, h) == {c \in t \cap DOMAIN Parent : Parent[c] = h}

Call(t, op) ==
  IF t = Trap THEN Trap
  ELSE CASE op.call = "new" ->
              IF op.handle \in DOMAIN Parent => Parent[op.handle] \in t
              THEN t \union {op.handle} ELSE Trap
         [] op.call = "use" -> IF op.handle \in t THEN t ELSE Trap
         [] op.call = "give" ->
              IF op.handle \in t /\ Children(t, op.handle) = {} THEN t \ {op.handle} ELSE Trap

\* The calls of one step, in order.
After(t, ops) == FoldLeft(Call, t, ops)
Host(ops) == table' = After(table, ops)

Go(p) == pc' = p

-----------------------------------------------------------------------------
(* wasmfn_handle and the function *)

\* config_string of greetingUrl, and whether the composite has a name.
ConfigResult == {"absent", "string", "not a string"}
RequestsSeen == [desired : [Names -> {None, "theirs"}], url : ConfigResult, named : BOOLEAN]

Fresh == [desired |-> None, severity |-> None, condition |-> FALSE]

\* fault: the response goes on from what the function had made of it
KeepingState(r) == [r EXCEPT !.severity = "fatal"]
\* fatal_response starts a response afresh.
FatalResponse(r) == [Fresh EXCEPT !.severity = "fatal"]

KitTypes ==
  /\ req \in RequestsSeen
  /\ rsp \in [desired : {None} \union [Names -> {None, "theirs", "ours"}],
              severity : {None, "normal", "fatal"}, condition : BOOLEAN]
  /\ reply \in {None, Error, rsp}
  /\ table = Trap \/ table \subseteq Handles
  /\ chunks \in 0..MaxChunks
  /\ room \in 0..(MaxBody + 1)
  /\ len \in 0..MaxBody
  /\ sends \in 0..MaxSends

\* An instance, and the request it is made for.
Instance ==
  [rsp |-> Fresh, reply |-> None, pc |-> "decode", table |-> {}, chunks |-> 0, room |-> 0,
   len |-> 0, sends |-> 0]

KitInit ==
  /\ req \in RequestsSeen
  /\ rsp = Instance.rsp /\ reply = Instance.reply /\ pc = Instance.pc
  /\ table = Instance.table /\ chunks = Instance.chunks
  /\ room = Instance.room /\ len = Instance.len /\ sends = Instance.sends

\* The next request, in a fresh instance.
NextInstance ==
  /\ pc = "done"
  /\ req' \in RequestsSeen
  /\ rsp' = Instance.rsp /\ reply' = Instance.reply /\ pc' = Instance.pc
  /\ table' = Instance.table /\ chunks' = Instance.chunks
  /\ room' = Instance.room /\ len' = Instance.len /\ sends' = Instance.sends

\* run_function returns an error, or the request did not decode.
Fatal ==
  /\ rsp' = FatalResponse(rsp)
  /\ Go("encode")
  /\ UNCHANGED <<req, reply, table, chunks, buffer, sends>>

\* pb_decode, set_meta and the config, which may be no string.
Decode ==
  /\ pc = "decode"
  /\ \/ Fatal
     \/ req.url = "not a string" /\ Fatal
     \/ /\ req.url # "not a string"
        /\ Go(IF req.url = "string" THEN "send" ELSE "compose")
        /\ UNCHANGED <<message, table, chunks, buffer, sends>>

\* A send that failed, and a status that is not 200, end run_function; an
\* author's may send again.
Fetched ==
  /\ pc \in {"sent", "failed"}
  /\ \/ Fatal
     \/ /\ pc = "sent"
        /\ Go("compose") \/ (sends < MaxSends /\ Go("send"))
        /\ UNCHANGED <<message, table, chunks, buffer, sends>>

\* The ConfigMap is built, and the response takes over the request's desired
\* state.
Compose ==
  /\ pc = "compose"
  /\ \/ Fatal  \* no name, or no memory
     \/ /\ req.named
        /\ rsp' = [rsp EXCEPT !.desired = req.desired]
        /\ Go("add")
        /\ UNCHANGED <<req, reply, table, chunks, buffer, sends>>

\* state_add_resource
StateAddResource ==
  /\ pc = "add"
  /\ \/ Fatal
     \/ /\ rsp' = [rsp EXCEPT !.desired[Greeting] = "ours"]
        /\ Go("report")
        /\ UNCHANGED <<req, reply, table, chunks, buffer, sends>>

\* The result and the condition.
Report ==
  /\ pc = "report"
  /\ \/ Fatal
     \/ /\ rsp' = [rsp EXCEPT !.severity = "normal", !.condition = TRUE]
        /\ Go("encode")
        /\ UNCHANGED <<req, reply, table, chunks, buffer, sends>>

\* encode and exports_function_run: the response, or the error string.
Encode ==
  /\ pc = "encode"
  /\ reply' \in {rsp, Error}
  /\ Go("done")
  /\ UNCHANGED <<req, rsp, table, chunks, buffer, sends>>

-----------------------------------------------------------------------------
(* send_through_host, up to the response *)

\* A step that made these calls; the client goes on to p, or has failed.
To(p, ops) == Host(ops) /\ Go(p) /\ UNCHANGED <<message, chunks, buffer, sends>>
Fails(ops) == To("failed", ops)

\* A fresh set of variables: what an earlier request left is out of reach.
SendThroughHost ==
  /\ pc = "send"
  /\ sends < MaxSends
  /\ sends' = sends + 1
  /\ chunks' \in 0..MaxChunks
  /\ table' = {}
  /\ room' = 0 /\ len' = 0
  /\ Go("headers") \/ Go("failed")  \* split_url
  /\ UNCHANGED message

\* request_headers: the host may refuse one.
RequestHeaders ==
  /\ pc = "headers"
  /\ \/ To("request", <<New("fields"), Use("fields")>>)
     \/ Fails(<<New("fields"), Use("fields")>>)

\* The request takes the headers over; the host may refuse its method or URL.
BuildRequest ==
  LET build == <<Give("fields"), New("request"), Use("request")>>
  IN  /\ pc = "request"
      /\ To(IF chunks > 0 THEN "take body" ELSE "handle", build) \/ Fails(build)

TakeBody ==
  /\ pc = "take body"
  /\ To("handle", <<Use("request"), New("body")>>) \/ Fails(<<Use("request")>>)

\* The handler takes the request over, whatever it answers.
Handle ==
  /\ pc = "handle"
  /\ \/ To(IF chunks > 0 THEN "write body" ELSE "await", <<Give("request"), New("future")>>)
     \/ Fails(<<Give("request")>>)

\* write_body
WriteBody ==
  /\ pc = "write body"
  /\ To("write", <<Use("body"), New("stream")>>) \/ Fails(<<Use("body")>>)

WriteChunk ==
  /\ pc = "write"
  /\ chunks > 0
  /\ \/ /\ Host(<<Use("stream")>>)
        /\ chunks' = chunks - 1
        /\ UNCHANGED <<message, pc, buffer, sends>>
     \/ Fails(<<Use("stream"), Give("stream")>>)

\* fault: the body is finished while its stream is open
FinishBodyFirst ==
  /\ pc = "write"
  /\ chunks = 0
  /\ To("await", <<Give("body"), Give("stream")>>) \/ Fails(<<Give("body"), Give("stream")>>)

FinishBody ==
  /\ pc = "write"
  /\ chunks = 0
  /\ To("await", <<Give("stream"), Give("body")>>) \/ Fails(<<Give("stream"), Give("body")>>)

\* The client blocks on the future, then asks it.
AwaitResponse ==
  LET block == <<Use("future"), New("ready"), Use("ready"), Give("ready"), Use("future")>>
  IN  /\ pc = "await"
      /\ \/ Fails(block)  \* nothing, though it is ready
         \/ Fails(block \o <<Give("future")>>)  \* answered already, or an error
         \/ To("response", block \o <<New("response"), Give("future")>>)

-----------------------------------------------------------------------------
(* The response *)

\* response_headers
ResponseHeaders ==
  LET copy == <<Use("response"), New("headers"), Use("headers"), Give("headers")>>
  IN  /\ pc = "response"
      /\ To("consume", copy) \/ Fails(copy)

\* read_body takes the body and its stream, or returns false, and the
\* response is dropped after it.
Consume ==
  /\ pc = "consume"
  /\ \/ To("input", <<Use("response"), New("incoming")>>)
     \/ Fails(<<Use("response"), Give("response")>>)

TakeInput ==
  /\ pc = "input"
  /\ \/ /\ Host(<<Use("incoming"), New("input")>>)
        /\ \/ Go("read") /\ room' = 1
           \/ Go("unread") /\ room' = 0  \* malloc failed
        /\ len' = 0
        /\ UNCHANGED <<message, chunks, sends>>
     \/ Fails(<<Use("incoming"), Give("incoming"), Give("response")>>)

\* fault: the buffer is grown to what it holds
GrownExactly(n) == len + n
\* The buffer is grown to what it holds and a terminator.
Grown(n) == len + n + 1

\* One blocking read: a chunk, the end, or a failure of the stream; and the
\* buffer grows, or cannot.
ReadChunk ==
  /\ pc = "read"
  /\ Host(<<Use("input")>>)
  /\ \/ \E n \in 0..MaxChunk :
          /\ len + n <= MaxBody
          /\ room' = Grown(n)
          /\ len' = len + n
          /\ UNCHANGED pc
     \/ Go("drained") /\ UNCHANGED buffer
     \/ Go("unread") /\ UNCHANGED buffer
  /\ UNCHANGED <<message, chunks, sends>>

\* The stream is dropped, the body finished, its trailers dropped, and the
\* response after them; the buffer is terminated, or freed.
EndBody ==
  /\ pc \in {"drained", "unread"}
  /\ Host(<<Give("input"), Give("incoming"), New("trailers"), Give("trailers"), Give("response")>>)
  /\ Go(IF pc = "drained" THEN "sent" ELSE "failed")
  /\ room' = IF pc = "drained" THEN room ELSE 0
  /\ UNCHANGED <<message, chunks, len, sends>>

KitNext ==
  \/ NextInstance \/ Decode \/ Fetched \/ Compose \/ StateAddResource \/ Report \/ Encode
  \/ SendThroughHost \/ RequestHeaders \/ BuildRequest \/ TakeBody \/ Handle
  \/ WriteBody \/ WriteChunk \/ FinishBody \/ AwaitResponse
  \/ ResponseHeaders \/ Consume \/ TakeInput \/ ReadChunk \/ EndBody

KitSpec == KitInit /\ [][KitNext]_kitVars

-----------------------------------------------------------------------------
(* Properties *)

\* Wherever a request over wasi:http fails, the host is never given a handle
\* it took over or got back, nor one that others were made from; and a
\* request that succeeds leaves the host nothing.
HandlesInOrder == table # Trap /\ (pc = "sent" => table = {})

\* The body of a response is inside its buffer and there is room for the NUL
\* that read_body puts after it, and wasmfn_http_get_text after the trimmed
\* text, whatever chunks it came in, empty ones and none included.
TerminatorFits == pc \in {"read", "drained", "sent"} => len < room

\* Whatever step of the function fails, the answer is whole: what the
\* function set out to return, with everything earlier functions desired in
\* it, or a fatal result with nothing of a half-made state; and when neither
\* can be encoded, the error string.
AnswerWhole ==
  pc = "done" /\ reply # Error =>
    \/ reply = [Fresh EXCEPT !.severity = "fatal"]
    \/ /\ reply.severity = "normal" /\ reply.condition /\ req.named
       /\ reply.desired = [n \in Names |-> IF n = Greeting THEN "ours" ELSE req.desired[n]]
=============================================================================
