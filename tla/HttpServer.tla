----------------------------- MODULE HttpServer -----------------------------
(***************************************************************************)
(* The HTTP layer around the handlers of api.go: the mux and the error     *)
(* answers of main.go, and what ogen generates from openapi.yaml, the      *)
(* prefix-tree router, the API key, the decoders, the upload that is       *)
(* spooled to /tmp, and the release of what a request holds.  The handler  *)
(* of POST /print copies the upload to /tmp once more; the copy of a       *)
(* document it turns down stays there.                                     *)
(*                                                                         *)
(* Module PrintDocument has that handler in detail; its Receive stands for *)
(* the steps here in front of Handle.                                      *)
(***************************************************************************)
EXTENDS Router

CONSTANTS
  Conns,           \* the requests of one behaviour, each with its goroutine
  Asked,           \* what clients send: [method, path, key, body]
  MaxUploadBytes,  \* config.MaxUploadBytes
  FormRoom,        \* the 1 MiB that limitPrintBody adds
  MemoryLimit,     \* the 8 MiB main.go allows a file part in memory
  DiskRoom         \* bytes /tmp has for uploads and their copies

ASSUME HttpServerAssumption ==
  /\ IsFiniteSet(Conns)
  /\ MaxUploadBytes \in Nat \ {0} /\ FormRoom \in Nat
  /\ MemoryLimit \in Nat \ {0} /\ DiskRoom \in Nat
  /\ \A r \in Asked :
       /\ r.path \in Seq(STRING) /\ r.path # << >> /\ r.path[1] = "/"
       /\ r.body.size \in Nat /\ r.body.form \in Nat

VARIABLES
  pc,      \* where each request is
  req,     \* what its client sent
  call,    \* the operation the router chose, and its path parameter
  spool,   \* bytes of the upload that are in a temporary file
  copy,    \* bytes of the print file copied from it
  served,  \* the call the handler was given, once it has run
  answer,  \* the answer, [status, code]
  starved  \* whether its upload did not fit into /tmp

vars == << pc, req, call, spool, copy, served, answer, starved >>

NoAnswer  == [status |-> 0, code |-> "none"]
NoRequest == [method |-> "none"]

Reply(status, code) == [status |-> status, code |-> code]

-----------------------------------------------------------------------------
(* The patterns of the mux of main.go.  Every other path is the API's, and *)
(* so is a documented path with another method.                            *)
IsDocs(r) ==
  /\ r.method \in {"GET", "HEAD"}
  /\ \/ r.path \in {<<"/", "openapi.yaml">>, <<"/", "docs">>}
     \/ IsPrefix(<<"/", "docs", "/">>, r.path)

MuxAnswer(r) ==
  IF ~ IsClean(r.path)                THEN Reply(301, "none")
  ELSE IF r.path = <<"/", "docs">>    THEN Reply(308, "none")
  ELSE Reply(200, "none")

(* notAllowed.                                                             *)
NotAllowed(method) == Reply(IF method = "OPTIONS" THEN 204 ELSE 405, "none")

(* No key is asked of the health check; an empty one is none.              *)
Authorized(r, op) == op = "healthCheck" \/ r.key = "right"

-----------------------------------------------------------------------------
(* ogenerrors.ErrorCode.                                                   *)
ErrorCode(err) ==
  CASE err = "security"     -> 401
    [] err = "content_type" -> 415
    [] OTHER                -> 400

(* Mutant: the status of the wrapped error is looked at first.             *)
MutErrorAnswer(err) ==
  IF ErrorCode(err) = 401 THEN Reply(401, "unauthorized")
  ELSE Reply(ErrorCode(err), "invalid_request")

(* apiErrorHandler.  Handlers return no errors and encoders fail only when *)
(* the client is gone, so its "internal_error" is never sent.              *)
ErrorAnswer(err) ==
  IF err = "max_bytes"              THEN Reply(413, "file_too_large")
  ELSE IF ErrorCode(err) = 401      THEN Reply(401, "unauthorized")
  ELSE Reply(ErrorCode(err), "invalid_request")

(* The limit of limitPrintBody, short of the overflow PrintDocument has.   *)
BodyLimit == MaxUploadBytes + FormRoom

Exceeds(b) == b.size + b.form > BodyLimit

MaxMultipartMemory == Min({MaxUploadBytes, MemoryLimit})

(* ParseMultipartForm puts a file part that does not fit the memory into a *)
(* temporary file.                                                         *)
Spooled(b) ==
  LET read == Min({b.size, BodyLimit})
  IN  IF b.file /\ read > MaxMultipartMemory THEN read ELSE 0

DiskUsed == SumFunction([c \in Conns |-> spool[c] + copy[c]])

-----------------------------------------------------------------------------
Init ==
  /\ pc     = [c \in Conns |-> "idle"]
  /\ req    = [c \in Conns |-> NoRequest]
  /\ call   = [c \in Conns |-> NoCall]
  /\ spool  = [c \in Conns |-> 0]
  /\ copy   = [c \in Conns |-> 0]
  /\ served = [c \in Conns |-> NoCall]
  /\ answer = [c \in Conns |-> NoAnswer]
  /\ starved = [c \in Conns |-> FALSE]

Go(c, from, to) == pc[c] = from /\ pc' = [pc EXCEPT ![c] = to]

(* A request is answered before the deferred functions of its goroutine    *)
(* run.                                                                    *)
Answer(c, from, reply) ==
  /\ Go(c, from, "close")
  /\ answer' = [answer EXCEPT ![c] = reply]

Fail(c, from, err) == Answer(c, from, ErrorAnswer(err))

(* newHTTPHandler and limitPrintBody.                                      *)
Receive(c) ==
  /\ \E r \in Asked :
       /\ req' = [req EXCEPT ![c] = r]
       /\ IF IsDocs(r) \/ ~ IsClean(r.path)
            THEN Answer(c, "idle", MuxAnswer(r))
            ELSE Go(c, "idle", "route") /\ UNCHANGED answer
  /\ UNCHANGED << call, spool, copy, served, starved >>

(* Server.ServeHTTP.                                                       *)
Dispatch(c) ==
  LET found == Route(req[c].path)
  IN  /\ pc[c] = "route"
      /\ IF found.op = "none"
           THEN Answer(c, "route", Reply(404, "none"))
         ELSE IF req[c].method # MethodOf(found.op)
           THEN Answer(c, "route", NotAllowed(req[c].method))
         ELSE Go(c, "route", "auth") /\ UNCHANGED answer
      /\ call' = [call EXCEPT ![c] = found]
      /\ UNCHANGED << req, spool, copy, served, starved >>

AfterAuth(op) == IF op = "printDocument" THEN "read" ELSE "params"

(* Mutant: the body is read first, the key is asked for afterwards.        *)
MutAuthenticate(c) ==
  /\ Go(c, "auth", AfterAuth(call[c].op))
  /\ UNCHANGED << req, call, spool, copy, served, answer, starved >>

(* securityApiKeyAuth and HandleApiKeyAuth.                                *)
Authenticate(c) ==
  /\ pc[c] = "auth"
  /\ IF Authorized(req[c], call[c].op)
       THEN Go(c, "auth", AfterAuth(call[c].op)) /\ UNCHANGED answer
       ELSE Fail(c, "auth", "security")
  /\ UNCHANGED << req, call, spool, copy, served, starved >>

(* The decoders of the path parameters: one must not be empty.             *)
DecodeParams(c) ==
  /\ IF call[c].op \in Parameterised /\ call[c].arg = << >>
       THEN Fail(c, "params", "params") /\ UNCHANGED call
       ELSE /\ Go(c, "params", "handle")
            /\ call' = [call EXCEPT ![c].arg = Unescape(@)]
            /\ UNCHANGED answer
  /\ UNCHANGED << req, spool, copy, served, starved >>

(* The first half of ParseMultipartForm: content type, then the file part. *)
(* Writing it fails when /tmp is full.                                     *)
ReadBody(c) ==
  LET b    == req[c].body
      full == DiskUsed + Spooled(b) > DiskRoom
  IN  /\ pc[c] = "read"
      /\ \/ /\ b.type # "multipart"
            /\ Fail(c, "read", IF b.type = "other" THEN "content_type" ELSE "decode")
            /\ UNCHANGED << spool, starved >>
         \/ /\ b.type = "multipart" /\ ~ full
            /\ Go(c, "read", "decode")
            /\ spool' = [spool EXCEPT ![c] = Spooled(b)]
            /\ UNCHANGED << answer, starved >>
         \/ /\ b.type = "multipart" /\ full
            /\ Fail(c, "read", "decode")
            /\ starved' = [starved EXCEPT ![c] = TRUE]
            /\ UNCHANGED spool
      /\ UNCHANGED << req, call, copy, served >>

(* Mutant: only a form that was decoded is released.                       *)
MutDecodeRequest(c) ==
  LET b == req[c].body
  IN  /\ pc[c] = "decode"
      /\ \/ Exceeds(b) /\ Fail(c, "decode", "max_bytes") /\ spool' = [spool EXCEPT ![c] = 0]
         \/ ~ Exceeds(b) /\ ~ (b.whole /\ b.fields /\ b.file)
              /\ Go(c, "decode", "done")
              /\ answer' = [answer EXCEPT ![c] = ErrorAnswer("decode")]
              /\ UNCHANGED spool
         \/ ~ Exceeds(b) /\ b.whole /\ b.fields /\ b.file
              /\ Go(c, "decode", "handle") /\ UNCHANGED << answer, spool >>
      /\ UNCHANGED << req, call, copy, served, starved >>

(* Mutant: the file is not required.                                       *)
MutNoFileRequired(c) ==
  LET b == req[c].body
  IN  /\ pc[c] = "decode"
      /\ \/ Exceeds(b) /\ Fail(c, "decode", "max_bytes") /\ spool' = [spool EXCEPT ![c] = 0]
         \/ ~ Exceeds(b) /\ ~ (b.whole /\ b.fields)
              /\ Fail(c, "decode", "decode") /\ spool' = [spool EXCEPT ![c] = 0]
         \/ ~ Exceeds(b) /\ b.whole /\ b.fields
              /\ Go(c, "decode", "handle") /\ UNCHANGED << answer, spool >>
      /\ UNCHANGED << req, call, copy, served, starved >>

(* The second half: the limit, a body that breaks off or is empty, then    *)
(* the fields in turn and the file.  An error releases the form before it  *)
(* is answered.                                                            *)
DecodeRequest(c) ==
  LET b == req[c].body
  IN  /\ pc[c] = "decode"
      /\ \/ /\ Exceeds(b)
            /\ Fail(c, "decode", "max_bytes")
            /\ spool' = [spool EXCEPT ![c] = 0]
         \/ /\ ~ Exceeds(b)
            /\ ~ (b.whole /\ b.fields /\ b.file)
            /\ Fail(c, "decode", "decode")
            /\ spool' = [spool EXCEPT ![c] = 0]
         \/ /\ ~ Exceeds(b)
            /\ b.whole /\ b.fields /\ b.file
            /\ Go(c, "decode", "handle")
            /\ UNCHANGED << answer, spool >>
      /\ UNCHANGED << req, call, copy, served, starved >>

(* copyPrintFile: the document is copied as far as there is room, then it  *)
(* is looked at.  The copy is removed only if a print file comes of it:    *)
(* the deferred removal finds an empty path, once an error is returned.    *)
CopyPrintFile(c) ==
  LET b == req[c].body
  IN  \/ /\ DiskUsed + b.size <= DiskRoom
         /\ copy' = [copy EXCEPT ![c] = b.size]
         /\ IF b.size = 0   THEN Answer(c, "handle", Reply(400, "empty_document"))
            ELSE IF ~ b.pdf THEN Answer(c, "handle", Reply(400, "invalid_document"))
            ELSE Go(c, "handle", "print") /\ UNCHANGED answer
      \/ /\ DiskUsed + b.size > DiskRoom
         /\ \E n \in 0 .. b.size - 1 :
              DiskUsed + n = DiskRoom /\ copy' = [copy EXCEPT ![c] = n]
         /\ Answer(c, "handle", Reply(500, "store_document"))

(* The handlers of api.go; that of POST /print checks the options and the  *)
(* exact size before it copies the document.                               *)
Handle(c) ==
  /\ pc[c] = "handle"
  /\ \/ /\ call[c].op # "printDocument"
        /\ Answer(c, "handle", Reply(200, "none")) /\ UNCHANGED copy
     \/ /\ call[c].op = "printDocument"
        /\ Answer(c, "handle", Reply(400, "unsupported")) /\ UNCHANGED copy
     \/ /\ call[c].op = "printDocument" /\ req[c].body.size > MaxUploadBytes
        /\ Answer(c, "handle", Reply(413, "file_too_large")) /\ UNCHANGED copy
     \/ /\ call[c].op = "printDocument" /\ req[c].body.size <= MaxUploadBytes
        /\ CopyPrintFile(c)
  /\ served' = [served EXCEPT ![c] = call[c]]
  /\ UNCHANGED << req, call, spool, starved >>

(* runLP; the print file is removed as the handler returns.                *)
RunLP(c) ==
  /\ \/ Answer(c, "print", Reply(202, "none"))
     \/ Answer(c, "print", Reply(500, "cups_error"))
  /\ copy' = [copy EXCEPT ![c] = 0]
  /\ UNCHANGED << req, call, spool, served, starved >>

(* The closers: the temporary file of the form goes.                       *)
Close(c) ==
  /\ Go(c, "close", "done")
  /\ spool' = [spool EXCEPT ![c] = 0]
  /\ UNCHANGED << req, call, copy, served, answer, starved >>

Step(c) ==
  \/ Dispatch(c) \/ Authenticate(c) \/ DecodeParams(c) \/ ReadBody(c)
  \/ DecodeRequest(c) \/ Handle(c) \/ RunLP(c) \/ Close(c)

Next == \E c \in Conns : Receive(c) \/ Step(c)

Spec == Init /\ [][Next]_vars

-----------------------------------------------------------------------------
WellFormed(r, t) ==
  /\ Designates(t, r.path) /\ IsClean(r.path) /\ r.method = t.method
  /\ t.op # "healthCheck" => r.key = "right"
  /\ t.param => ArgOf(t, r.path) # << >>
  /\ t.op = "printDocument" =>
       /\ r.body.type = "multipart" /\ r.body.whole /\ r.body.fields /\ r.body.file
       /\ r.body.size + r.body.form <= MaxUploadBytes + FormRoom

(* The tree of the router and the templates of openapi.yaml agree: 404 is  *)
(* for a path no template designates, 405 for a designated path with       *)
(* another method, also for names that begin like one another.             *)
RoutedAsDocumented ==
  \A c \in Conns :
    pc[c] \notin {"idle", "route"} /\ ~ IsDocs(req[c]) /\ IsClean(req[c].path) =>
      LET ts == { t \in Documented : Designates(t, req[c].path) }
      IN  /\ answer[c].status = 404 <=> ts = {}
          /\ answer[c].status \in {204, 405} <=>
               ts # {} /\ \A t \in ts : t.method # req[c].method
          /\ \A t \in ts : call[c].op = t.op

(* A handler of api.go is given every well-formed request, with its own    *)
(* decoded parameter, and no other request, unless /tmp was full.          *)
HandledIffWellFormed ==
  \A c \in Conns :
    pc[c] = "done" /\ ~ starved[c] =>
      LET ts == { t \in Documented : WellFormed(req[c], t) }
      IN  /\ ts = {} => served[c] = NoCall
          /\ \A t \in ts : served[c] = Leaf(t.op, Unescape(ArgOf(t, req[c].path)))

(* Without the key nothing of a request is read, stored or carried out;    *)
(* only the health check is for everybody.                                 *)
NothingWithoutKey ==
  \A c \in Conns :
    pc[c] # "idle" /\ req[c].key # "right" =>
      spool[c] = 0 /\ copy[c] = 0 /\ served[c].op \in {"none", "healthCheck"}

(* An upload of an authorised client that is cut off at the limit of the   *)
(* body is answered 413, though to the decoder it is an error of its form; *)
(* and 413 is answered only for a document over the limit or for more form *)
(* fields than there is room for.                                          *)
TooLargeIsSaidSo ==
  \A c \in Conns :
    LET b == req[c].body
    IN  /\ answer[c].status = 413 => b.size > MaxUploadBytes \/ b.form > FormRoom
        /\ call[c].op = "printDocument" /\ pc[c] = "done" /\ answer[c].status # 413
             /\ req[c].method = "POST" /\ req[c].key = "right" /\ b.type = "multipart"
             => ~ Exceeds(b) \/ starved[c]

(* The answers of the documents that are turned down with a copy of them.  *)
TurnedDown == {"invalid_document", "store_document"}

ShortOfRoom(c) == starved[c] \/ answer[c].code = "store_document"

(* The room a request asks of /tmp next, and what is in use even if it is  *)
(* alone: its own form file, and the copies of documents turned down.      *)
Wants(c) == IF pc[c] = "read" THEN Spooled(req[c].body) ELSE req[c].body.size

LeftFor(c) ==
  SumFunction([d \in Conns |-> IF d = c THEN spool[d]
                               ELSE IF answer[d].code \in TurnedDown THEN copy[d] ELSE 0])

(* The room a request takes in /tmp is given back, however it ends, but    *)
(* for the copy of a document that is no PDF or found no room itself.  So  *)
(* there is too little room only while other requests are served, or if    *)
(* such copies, kept for ever, and the request's own two files fill it.    *)
SpaceIsGivenBack ==
  [][ \A c \in Conns :
        ShortOfRoom(c)' /\ ~ ShortOfRoom(c) =>
          \/ \E d \in Conns \ {c} : pc[d] \in {"read", "decode", "handle", "print", "close"}
          \/ LeftFor(c) + Wants(c) > DiskRoom ]_vars

=============================================================================
