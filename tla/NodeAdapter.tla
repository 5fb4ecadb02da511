---------------------------- MODULE NodeAdapter -----------------------------
(***************************************************************************)
(* toNodeHandler (server/src/adapters/node.ts): a request of node:http is  *)
(* turned into a web Request, and the body of the web Response is pumped   *)
(* into the socket.  The handler behind it is handleSubscribe, which ends  *)
(* its stream when the signal of the request aborts (module Streams).      *)
(***************************************************************************)
EXTENDS Naturals

CONSTANTS
  Exchanges,  (* Slots of the model for requests and their responses.      *)
  HighWater,  (* The chunks a socket buffers before write() returns false. *)
  Depth       (* Bound of the model: chunks in the queue of the web stream. *)

ASSUME AdapterAssumption == {HighWater, Depth} \subseteq Nat \ {0}

VARIABLES
  pump,    (* idle, collect, handler, read, drain, cancel or ended.         *)
  status,  (* Of the head that was written, 0 before it is.                 *)
  stream,  (* The web stream of the response: none, open, closed or cancelled. *)
  queue,   (* Its chunks.                                                   *)
  socket,  (* The chunks that were written and not yet sent.                *)
  aborted  (* The response has closed, and so has aborted the signal.       *)

adapterVars == <<pump, status, stream, queue, socket, aborted>>

InitAdapter ==
  /\ pump = [c \in Exchanges |-> "idle"]
  /\ status = [c \in Exchanges |-> 0]
  /\ stream = [c \in Exchanges |-> "none"]
  /\ queue = [c \in Exchanges |-> 0]
  /\ socket = [c \in Exchanges |-> 0]
  /\ aborted = [c \in Exchanges |-> FALSE]

Goes(c, to) == pump' = [pump EXCEPT ![c] = to]

\* A GET has no body to collect.
Request(c) ==
  /\ pump[c] = "idle"
  /\ \E method \in {"GET", "POST"} : Goes(c, IF method = "GET" THEN "handler" ELSE "collect")
  /\ UNCHANGED <<status, stream, queue, socket, aborted>>

Collected(c) ==
  /\ pump[c] = "collect"
  /\ Goes(c, "handler")
  /\ UNCHANGED <<status, stream, queue, socket, aborted>>

TooLarge(c) ==
  /\ pump[c] = "collect"
  /\ status' = [status EXCEPT ![c] = 413]
  /\ Goes(c, "ended")
  /\ UNCHANGED <<stream, queue, socket, aborted>>

\* The handler answers with a stream, which is over when the signal has
\* aborted; with a body of one chunk; or with none.
Handled(c) ==
  /\ pump[c] = "handler"
  /\ \/ /\ status' = [status EXCEPT ![c] = 200]
        /\ stream' = [stream EXCEPT ![c] = IF aborted[c] THEN "closed" ELSE "open"]
        /\ Goes(c, "read")
        /\ UNCHANGED queue
     \/ /\ status' = [status EXCEPT ![c] = 400]
        /\ stream' = [stream EXCEPT ![c] = "closed"]
        /\ queue' = [queue EXCEPT ![c] = 1]
        /\ Goes(c, "read")
     \/ /\ status' = [status EXCEPT ![c] = 400]
        /\ Goes(c, "ended")
        /\ UNCHANGED <<stream, queue>>
  /\ UNCHANGED <<socket, aborted>>

\* The body breaks off or the handler throws, which is the caller's to deal
\* with: nothing is written.
Rejects(c) ==
  /\ pump[c] \in {"collect", "handler"}
  /\ Goes(c, "ended")
  /\ UNCHANGED <<status, stream, queue, socket, aborted>>

\* The handler writes to its stream, and ends it.
Enqueue(c) ==
  /\ stream[c] = "open" /\ queue[c] < Depth
  /\ queue' = [queue EXCEPT ![c] = @ + 1]
  /\ UNCHANGED <<pump, status, stream, socket, aborted>>

StreamEnds(c) ==
  /\ stream[c] = "open"
  /\ stream' = [stream EXCEPT ![c] = "closed"]
  /\ UNCHANGED <<pump, status, queue, socket, aborted>>

\* Slip: nobody looks at what write() returned.
NeverFull(c) == FALSE

\* write() returned false.
Full(c) == socket'[c] >= HighWater

\* reader.read() brought a chunk: it is written, unless the response has closed.
Pumps(c) ==
  /\ pump[c] = "read" /\ queue[c] > 0
  /\ queue' = [queue EXCEPT ![c] = @ - 1]
  /\ socket' = [socket EXCEPT ![c] = IF aborted[c] THEN @ ELSE @ + 1]
  /\ Goes(c, IF aborted[c] THEN "cancel" ELSE IF Full(c) THEN "drain" ELSE "read")
  /\ UNCHANGED <<status, stream, aborted>>

PumpDone(c) ==
  /\ pump[c] = "read" /\ queue[c] = 0 /\ stream[c] = "closed"
  /\ Goes(c, "cancel")
  /\ UNCHANGED <<status, stream, queue, socket, aborted>>

\* The finally block: the reader is cancelled, and the response ended.
Cancels(c) ==
  /\ pump[c] = "cancel"
  /\ stream' = [stream EXCEPT ![c] = "cancelled"]
  /\ queue' = [queue EXCEPT ![c] = 0]
  /\ Goes(c, "ended")
  /\ UNCHANGED <<status, socket, aborted>>

\* A chunk is sent; the socket reports when all are.
Sends(c) ==
  /\ socket[c] > 0 /\ ~aborted[c]
  /\ socket' = [socket EXCEPT ![c] = @ - 1]
  /\ IF pump[c] = "drain" /\ socket'[c] = 0 THEN Goes(c, "read") ELSE UNCHANGED pump
  /\ UNCHANGED <<status, stream, queue, aborted>>

\* Slip: only drain ends the wait for drain.
ClosesUnheard(c) ==
  /\ pump[c] # "idle" /\ ~aborted[c]
  /\ aborted' = [aborted EXCEPT ![c] = TRUE]
  /\ socket' = [socket EXCEPT ![c] = 0]
  /\ stream' = [stream EXCEPT ![c] = IF @ = "open" THEN "closed" ELSE @]
  /\ UNCHANGED <<pump, status, queue>>

\* The response closes: the signal aborts, which the handler and a pump that
\* waits for drain listen to.
Closes(c) ==
  /\ pump[c] # "idle" /\ ~aborted[c]
  /\ aborted' = [aborted EXCEPT ![c] = TRUE]
  /\ socket' = [socket EXCEPT ![c] = 0]
  /\ stream' = [stream EXCEPT ![c] = IF @ = "open" THEN "closed" ELSE @]
  /\ IF pump[c] = "drain" THEN Goes(c, "read") ELSE UNCHANGED pump
  /\ UNCHANGED <<status, queue>>

\* A slot that serves another request.
Forget(c) ==
  /\ pump[c] = "ended" /\ aborted[c]
  /\ Goes(c, "idle")
  /\ status' = [status EXCEPT ![c] = 0]
  /\ stream' = [stream EXCEPT ![c] = "none"]
  /\ aborted' = [aborted EXCEPT ![c] = FALSE]
  /\ UNCHANGED <<queue, socket>>

\* What goes on by itself: the body comes or breaks off, the handler answers.
Proceeds(c) ==
  Collected(c) \/ TooLarge(c) \/ Rejects(c) \/ Handled(c) \/ Pumps(c) \/ PumpDone(c) \/ Cancels(c)

(***************************************************************************)
(* A client that has stopped reading stops the query loop instead of       *)
(* filling the socket buffer (node.ts 138-139): what was written and not   *)
(* sent never exceeds what the socket takes before it says so, however     *)
(* reads, writes, drains and closes interleave.                            *)
(***************************************************************************)
BackpressureHolds == \A c \in Exchanges : socket[c] <= HighWater
=============================================================================
