----------------------------- MODULE PreviewRelay -----------------------------
(***************************************************************************)
(* One preview request: a browser's HTTP request to the preview listener   *)
(* (preview-server.ts), the relay that multiplexes it onto the sandbox's    *)
(* tunnel (preview-relay.ts), and the runner that replays it on the        *)
(* sandbox's loopback (http_proxy.go).  Requests share nothing but the      *)
(* tunnel, which module Tunnel describes; here it is up or lost.            *)
(*                                                                         *)
(* Bodies are counted in chunks.  up and down are the two directions of the *)
(* RPC stream.  Headers pass through both hops without those that describe  *)
(* one connection and decide nothing here.                                  *)
(***************************************************************************)
EXTENDS Naturals, Sequences

CONSTANTS MaxUpload,   \* bound: chunks of a request body
          BodyCap,     \* maxProxyRequestBody, in chunks
          MaxReply,    \* bound: chunks of a response body
          WireCap      \* chunks the stream holds in one direction

ASSUME PreviewConstants ==
  /\ {MaxUpload, BodyCap, MaxReply} \subseteq Nat
  /\ WireCap \in Nat \ {0}

VARIABLES listener,  \* the preview server: open, closing or closed
          browser,   \* the connection: none yet, open, or gone
          method,    \* of the request
          upload,    \* request body: chunks received, and whether it is whole
          relay,     \* PreviewRelay.handle: where it stands
          read,      \* previewMessages: chunks taken, and whether it has ended
          rpc,       \* the call: open, aborted by its signal, or ended
          up, down,  \* messages under way to the runner and back
          runner,    \* Service.HttpProxy
          server,    \* the sandbox's own server
          reply      \* what the browser was answered

previewVars == <<listener, browser, method, upload, relay, read, rpc, up, down,
                 runner, server, reply>>

ends == <<runner, server>>
front == <<listener, browser, method, upload>>

NoReply == [status |-> 0, got |-> 0, at |-> "open"]
Whole(status) == [status |-> status, got |-> 0, at |-> "ended"]

-----------------------------------------------------------------------------
(* The preview listener. *)

\* handleRequest: the health check and an unknown host are answered at once.
Arrive(path, m) ==
  /\ listener = "open" /\ browser = "none"
  /\ browser' = "open"
  /\ method' = m
  /\ \/ path = "health" /\ relay' = "done" /\ reply' = Whole(200)
     \/ path = "unknown" /\ relay' = "done" /\ reply' = Whole(404)
     \/ path = "preview" /\ relay' = "waiting" /\ UNCHANGED reply
  /\ UNCHANGED <<listener, upload, read, rpc, up, down, ends>>

Upload ==
  /\ browser = "open" /\ ~upload.whole
  /\ \/ upload.chunks < MaxUpload /\ upload' = [upload EXCEPT !.chunks = @ + 1]
     \/ upload' = [upload EXCEPT !.whole = TRUE]
  /\ UNCHANGED <<listener, browser, method, relay, read, rpc, up, down, ends, reply>>

\* mutant: the relayed request is not aborted.
LeaveUnnoticed == browser' = "gone" /\ UNCHANGED rpc

\* The connection closes.  The relay listens for it from the moment it has
\* a runner, and aborts the call unless the response was ended.
Leave ==
  /\ browser' = "gone"
  /\ rpc' = IF relay \in {"relaying", "writing"} /\ rpc = "open" /\ reply.at # "ended"
            THEN "aborted" ELSE rpc

BrowserLeaves ==
  /\ browser = "open"
  /\ Leave
  /\ UNCHANGED <<listener, method, upload, relay, read, up, down, ends, reply>>

\* close drops the connections first, then waits for the last to end.
Close ==
  /\ listener = "open"
  /\ listener' = "closing"
  /\ IF browser = "open" THEN Leave ELSE UNCHANGED <<browser, rpc>>
  /\ UNCHANGED <<method, upload, relay, read, up, down, ends, reply>>

Closed ==
  /\ listener = "closing"
  /\ browser # "open" \/ reply.at # "open"
  /\ listener' = "closed"
  /\ UNCHANGED <<browser, method, upload, relay, read, rpc, up, down, ends, reply>>

-----------------------------------------------------------------------------
(* The relay. *)

\* waitFor answers the registered runner within a second, or 503.
Waited ==
  /\ relay = "waiting"
  /\ \/ relay' = "relaying" /\ rpc' = "open" /\ UNCHANGED reply
     \/ relay' = "done" /\ reply' = Whole(503) /\ UNCHANGED rpc
  /\ UNCHANGED <<front, read, up, down, ends>>

\* previewMessages: the head, the body as it arrives, the end.  A request
\* that broke off throws where its body is read, which fails the call.
previewMessages ==
  /\ relay \in {"relaying", "writing"} /\ rpc = "open"
  /\ \/ read.at = "head" /\ Len(up) < WireCap
        /\ up' = Append(up, "head") /\ read' = [read EXCEPT !.at = "body"] /\ UNCHANGED rpc
     \/ read.at = "body" /\ browser = "open" /\ read.chunks < upload.chunks /\ Len(up) < WireCap
        /\ up' = Append(up, "body") /\ read' = [read EXCEPT !.chunks = @ + 1] /\ UNCHANGED rpc
     \/ read.at = "body" /\ browser = "open" /\ read.chunks = upload.chunks /\ upload.whole
        /\ Len(up) < WireCap
        /\ up' = Append(up, "end") /\ read' = [read EXCEPT !.at = "end"] /\ UNCHANGED rpc
     \/ read.at = "body" /\ browser = "gone"
        /\ rpc' = "broken" /\ UNCHANGED <<up, read>>
  /\ UNCHANGED <<front, relay, down, ends, reply>>

\* The catch block: a response under way is destroyed, else answered 502.
\* The finally block releases the call either way.
Fail ==
  /\ relay' = "done"
  /\ reply' = IF reply.status # 0 THEN [reply EXCEPT !.at = "destroyed"]
              ELSE Whole(502)
  /\ rpc' = IF rpc = "open" THEN "aborted" ELSE rpc

\* The next message of the runner: the head is written, a body chunk goes
\* to the browser before the next one is taken (none for HEAD), the end
\* ends the response, an error fails.
RelayTakes ==
  /\ relay = "relaying" /\ rpc = "open" /\ down # <<>>
  /\ down' = Tail(down)
  /\ CASE Head(down) = "head" ->
            reply' = [reply EXCEPT !.status = 200] /\ UNCHANGED <<relay, rpc>>
       [] Head(down) = "body" /\ reply.status # 0 ->
            relay' = (IF method = "HEAD" THEN "relaying" ELSE "writing") /\ UNCHANGED <<reply, rpc>>
       [] Head(down) = "end" ->
            reply' = [reply EXCEPT !.at = "ended"] /\ relay' = "done" /\ rpc' = "ended"
       [] OTHER -> Fail
  /\ UNCHANGED <<front, read, up, ends>>

\* The write callback: the chunk is with the browser, which may take its
\* time, or the browser left.  Until it is called nothing else is noticed.
Wrote ==
  /\ relay = "writing"
  /\ IF browser = "open"
     THEN relay' = "relaying" /\ reply' = [reply EXCEPT !.got = @ + 1] /\ UNCHANGED rpc
     ELSE Fail
  /\ UNCHANGED <<front, read, up, down, ends>>

\* The call was aborted, its request broke, or the tunnel was lost.
RelayFails ==
  /\ relay = "relaying" /\ rpc \notin {"open", "ended"}
  /\ Fail
  /\ UNCHANGED <<front, read, up, down, ends>>

TunnelLost ==
  /\ rpc = "open"
  /\ rpc' = "broken"
  /\ UNCHANGED <<front, relay, read, up, down, ends, reply>>

-----------------------------------------------------------------------------
(* The runner and the sandbox's server. *)

Down(m) == down' = Append(down, m)

\* receiveProxyHead, which refuses a target that is no path, and
\* receiveProxyBody, up to the cap.
ProxyReceive ==
  /\ runner.at \in {"head", "body"} /\ up # <<>> /\ Len(down) < WireCap
  /\ up' = Tail(up)
  /\ \/ /\ runner.at = "head" /\ Head(up) = "head"
        /\ \/ runner' = [runner EXCEPT !.at = "body"] /\ UNCHANGED down
           \/ runner' = [runner EXCEPT !.at = "done"] /\ Down("error")
     \/ /\ runner.at = "body" /\ Head(up) = "body" /\ runner.body < BodyCap
        /\ runner' = [runner EXCEPT !.body = @ + 1] /\ UNCHANGED down
     \/ /\ runner.at = "body" /\ Head(up) = "body" /\ runner.body = BodyCap
        /\ runner' = [runner EXCEPT !.at = "done"] /\ Down("error")
     \/ /\ runner.at = "body" /\ Head(up) = "end"
        /\ runner' = [runner EXCEPT !.at = "dial"] /\ UNCHANGED down
  /\ UNCHANGED <<front, relay, read, rpc, server, reply>>

\* proxyClient.Do: the server answers with a head, or nothing listens.
Dial ==
  /\ runner.at = "dial" /\ server.at = "idle" /\ Len(down) < WireCap
  /\ \/ /\ server' = [server EXCEPT !.at = "serving", !.got = runner.body]
        /\ UNCHANGED <<runner, down>>
     \/ /\ runner' = [runner EXCEPT !.at = "done"]
        /\ Down("error")
        /\ UNCHANGED server
  /\ UNCHANGED <<front, relay, read, rpc, up, reply>>

SendHead ==
  /\ runner.at = "dial" /\ server.at # "idle" /\ server.head /\ Len(down) < WireCap
  /\ runner' = [runner EXCEPT !.at = "copy"]
  /\ Down("head")
  /\ UNCHANGED <<front, relay, read, rpc, up, server, reply>>

\* The server writes its head, a chunk (none for HEAD), ends its response
\* or breaks off, at any time or never.
Serve ==
  /\ server.at = "serving"
  /\ server' \in {[server EXCEPT !.head = TRUE]}
       \cup (IF server.head /\ server.made < MaxReply /\ method # "HEAD"
             THEN {[server EXCEPT !.made = @ + 1]} ELSE {})
       \cup (IF server.head THEN {[server EXCEPT !.at = "ended"]} ELSE {})
       \cup {[server EXCEPT !.at = "broken", !.head = TRUE]}
  /\ UNCHANGED <<front, relay, read, rpc, up, down, runner, reply>>

\* mutant: every end of the body is its end.
CopyEndsAnyway ==
  /\ runner.at = "copy" /\ Len(down) < WireCap
  /\ \/ runner.sent < server.made
        /\ runner' = [runner EXCEPT !.sent = @ + 1] /\ Down("body")
     \/ runner.sent = server.made /\ server.at \in {"ended", "broken"}
        /\ runner' = [runner EXCEPT !.at = "done"] /\ Down("end")
  /\ UNCHANGED <<front, relay, read, rpc, up, server, reply>>

\* The response is copied as it arrives; what ends it is the end of the
\* body or an error.
Copy ==
  /\ runner.at = "copy" /\ Len(down) < WireCap
  /\ \/ runner.sent < server.made
        /\ runner' = [runner EXCEPT !.sent = @ + 1] /\ Down("body")
     \/ runner.sent = server.made /\ server.at = "ended"
        /\ runner' = [runner EXCEPT !.at = "done"] /\ Down("end")
     \/ runner.sent = server.made /\ server.at = "broken"
        /\ runner' = [runner EXCEPT !.at = "done"] /\ Down("error")
  /\ UNCHANGED <<front, relay, read, rpc, up, server, reply>>

\* The call's context ends: the receive, the dial or the read returns.  The
\* copy then ends the stream as if the response were whole.
ProxyCancelled ==
  /\ rpc \notin {"none", "open"} /\ runner.at # "done"
  /\ runner' = [runner EXCEPT !.at = "done"]
  /\ server' = IF server.at = "serving" THEN [server EXCEPT !.at = "dropped"] ELSE server
  /\ IF runner.at = "copy" THEN Down("end") ELSE UNCHANGED down
  /\ UNCHANGED <<front, relay, read, rpc, up, reply>>

-----------------------------------------------------------------------------

PreviewInit ==
  /\ listener = "open"
  /\ browser = "none"
  /\ method = "GET"
  /\ upload = [chunks |-> 0, whole |-> FALSE]
  /\ relay = "none"
  /\ read = [at |-> "head", chunks |-> 0]
  /\ rpc = "none"
  /\ up = <<>> /\ down = <<>>
  /\ runner = [at |-> "head", body |-> 0, sent |-> 0]
  /\ server = [at |-> "idle", got |-> 0, head |-> FALSE, made |-> 0]
  /\ reply = NoReply

RelaySteps ==
  \/ Waited
  \/ previewMessages
  \/ RelayTakes
  \/ Wrote
  \/ RelayFails
  \/ Closed

RunnerSteps ==
  \/ ProxyReceive
  \/ Dial
  \/ SendHead
  \/ Copy
  \/ ProxyCancelled

PreviewNext ==
  \/ \E path \in {"health", "unknown", "preview"}, m \in {"GET", "HEAD"} : Arrive(path, m)
  \/ Upload
  \/ BrowserLeaves
  \/ Close
  \/ TunnelLost
  \/ Serve
  \/ RelaySteps
  \/ RunnerSteps

PreviewSpec == PreviewInit /\ [][PreviewNext]_previewVars

\* Promises and RPC messages move; the browser, the sandbox's server and the
\* operator owe nothing.
PreviewFairness ==
  /\ WF_previewVars(Waited) /\ WF_previewVars(previewMessages)
  /\ WF_previewVars(RelayTakes) /\ WF_previewVars(RelayFails)
  /\ WF_previewVars(browser = "gone" /\ Wrote)
  /\ WF_previewVars(Closed) /\ WF_previewVars(ProxyCancelled)

-----------------------------------------------------------------------------

\* A response that ends normally is the server's whole response: whatever
\* broke on the way (server, runner, tunnel) cuts the connection or shows 502.
WholeOrCut ==
  relay = "done" /\ reply.at = "ended" /\ rpc # "none" /\ reply.status = 200
    => server.at = "ended" /\ reply.got = server.made

\* The sandbox's server only ever gets a request body in full: a browser
\* that gives up half way does not have its half a request carried out.
RequestWhole == server.at # "idle" => upload.whole /\ server.got = upload.chunks

\* A browser that gives up releases the relayed request and the runner's
\* handler, even from a server that never answers and when it left before a
\* runner was found; and a listener that closes does not wait for ever for
\* the responses in progress.
Released ==
  /\ browser = "gone" ~> (relay = "done" /\ (rpc # "none" => runner.at = "done"))
  /\ listener = "closing" ~> listener = "closed"
=============================================================================
