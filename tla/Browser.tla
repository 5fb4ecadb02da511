------------------------------ MODULE Browser -------------------------------
(***************************************************************************)
(* The page and the server's adapter: each event source of Insight has a   *)
(* connection at a time, an exchange of NodeAdapter.  The browser connects *)
(* again when one breaks, until the server answers anything but 200.       *)
(***************************************************************************)
EXTENDS Insight, NodeAdapter

VARIABLE carries  (* The source an exchange was opened by, 0 for none. *)

browserVars == <<insightVars, adapterVars, carries>>

InitBrowser == InitInsight /\ InitAdapter /\ carries = [c \in Exchanges |-> 0]

\* The source is closed: on the page, done means that close() was called.
Abandoned(c) == carries[c] # 0 /\ sources[carries[c]].done

Connected(s) == \E c \in Exchanges : carries[c] = s /\ ~aborted[c]

Connect(c, s) ==
  /\ Listens(s) /\ ~Connected(s)
  /\ Request(c)
  /\ carries' = [carries EXCEPT ![c] = s]
  /\ UNCHANGED insightVars

\* The head arrives: the source opens, or gives up for good.
Answered(c) ==
  /\ Handled(c) \/ TooLarge(c)
  /\ IF aborted[c] THEN UNCHANGED insightVars
     ELSE IF status'[c] = 200 THEN FeedOpens(carries[c]) ELSE FeedError(carries[c], TRUE)
  /\ UNCHANGED carries

\* A frame arrives, or a comment.
Arrives(c) ==
  /\ Sends(c)
  /\ IF status[c] = 200 THEN FeedFrame(carries[c]) \/ UNCHANGED insightVars ELSE UNCHANGED insightVars
  /\ UNCHANGED carries

\* The connection breaks, or the response has ended and been read.
Breaks(c) ==
  /\ Closes(c)
  /\ FeedError(carries[c], FALSE)
  /\ UNCHANGED carries

\* The page has closed the source, and the server notices.
Abandons(c) ==
  /\ Abandoned(c)
  /\ Closes(c)
  /\ UNCHANGED <<insightVars, carries>>

Leaves(c) ==
  /\ Forget(c)
  /\ carries' = [carries EXCEPT ![c] = 0]
  /\ UNCHANGED insightVars

Serves(c) ==
  \/ Answered(c)
  \/ /\ Collected(c) \/ Rejects(c) \/ Pumps(c) \/ PumpDone(c) \/ Cancels(c)
     /\ UNCHANGED <<insightVars, carries>>

Page ==
  \/ \E question \in Questions \union {Nothing} : Pass(question)
  \/ Reload \/ React
  \/ \E n \in Tickets : Replies(n)

NextBrowser ==
  \/ Page /\ UNCHANGED <<adapterVars, carries>>
  \/ \E c \in Exchanges :
       \/ \E s \in DOMAIN sources : Connect(c, s)
       \/ Serves(c) \/ Arrives(c) \/ Breaks(c) \/ Abandons(c) \/ Leaves(c)
       \/ (Enqueue(c) \/ StreamEnds(c)) /\ UNCHANGED <<insightVars, carries>>

BrowserSpec == InitBrowser /\ [][NextBrowser]_browserVars

(***************************************************************************)
(* The handler and the web stream make progress, and a connection whose    *)
(* client has closed it is reported closed; no reply, frame or reader is   *)
(* assumed.                                                                *)
(***************************************************************************)
FairBrowser ==
  /\ BrowserSpec
  /\ \A c \in Exchanges : WF_adapterVars(Proceeds(c)) /\ WF_aborted(Abandoned(c) /\ Closes(c))
-----------------------------------------------------------------------------
(***************************************************************************)
(* A feed the page has given up - another question, a reload, a last frame *)
(* or an error - is given up at the server: its stream is cancelled or has *)
(* closed, and the response ended, also when the page had stopped reading  *)
(* (use-live-result.ts 158-161, node.ts 112 and 141-153).                  *)
(***************************************************************************)
AbandonedFeedsEnd ==
  \A c \in Exchanges : Abandoned(c) ~> pump[c] = "ended" /\ stream[c] # "open"
=============================================================================
