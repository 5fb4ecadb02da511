------------------------------ MODULE Insight -------------------------------
(***************************************************************************)
(* The Insight component (react/src): useAsk, useLiveResult and what is    *)
(* drawn of the two.                                                       *)
(*                                                                         *)
(* React is modelled by what it promises: a render takes every update      *)
(* queued since the last one, the effects of a render run after it, all    *)
(* together, and before the next.  Between those steps replies and frames  *)
(* arrive in any order.  A fetch that was aborted may answer all the same: *)
(* the host may pass one of its own (fetchImpl) that does not look at the  *)
(* signal; so may an event source (eventSourceFactory) that was closed.    *)
(***************************************************************************)
EXTENDS Naturals, Sequences

CONSTANTS
  Questions,             (* What the host may ask.                           *)
  Nothing,               (* No question.                                     *)
  MaxTransportFailures,  (* Of useLiveResult.                                *)
  MaxRequests,           (* Bounds of the model: the questions sent          *)
  MaxSources             (* and the event sources opened.                    *)

ASSUME InsightAssumption == {MaxTransportFailures, MaxRequests, MaxSources} \subseteq Nat /\ Nothing \notin Questions

VARIABLES
  wanted,    (* The question and nonce the host and reload() ask for,        *)
  rendered,  (* those of the last render,                                    *)
  asked,     (* and those useAsk's effect last ran for.                      *)
  feed,      (* The token of the last render,                                *)
  followed,  (* and the one useLiveResult's effect last ran for.             *)
  requests,  (* Every request: its question and whether it is out; a ticket is its index. *)
  heedless,  (* History: some fetch answered after its abort.                *)
  ask,       (* useAsk's state as it is shown, and as it is queued.          *)
  previous,  (* The last answer that was shown.                              *)
  sources,   (* Every event source: its token, done, and its failures.       *)
  snapshot,  (* The token whose snapshot the ref holds.                      *)
  live       (* useLiveResult's state, shown and queued.                     *)

askVars == <<wanted, rendered, asked, requests, heedless, ask, previous>>
feedVars == <<feed, followed, sources, snapshot, live>>
insightVars == <<askVars, feedVars>>

Tickets == DOMAIN requests
Current == Len(requests)

\* State of useAsk: the answer of a ticket, whose token is 0 when it brought none.
AskState(phase, ticket, token) == [phase |-> phase, ticket |-> ticket, token |-> token]
AskIdle == AskState("idle", 0, 0)
LiveState(phase, of) == [phase |-> phase, snapshot |-> of]
LiveIdle == LiveState("idle", 0)

InitInsight ==
  /\ wanted = [question |-> Nothing, nonce |-> 0]
  /\ rendered = wanted /\ asked = wanted
  /\ feed = 0 /\ followed = 0
  /\ requests = <<>>
  /\ heedless = FALSE
  /\ ask = [shown |-> AskIdle, queued |-> AskIdle]
  /\ previous = AskIdle
  /\ sources = <<>>
  /\ snapshot = 0
  /\ live = [shown |-> LiveIdle, queued |-> LiveIdle]

(***************************************************************************)
(* The host passes another question, or none, or one that is disabled; the *)
(* user reloads: a nonce no effect has run for.                            *)
(***************************************************************************)
Pass(question) ==
  /\ question # wanted.question
  /\ question = Nothing \/ Current < MaxRequests
  /\ wanted' = [wanted EXCEPT !.question = question]
  /\ UNCHANGED <<rendered, asked, requests, heedless, ask, previous, feedVars>>

Reload ==
  /\ Current < MaxRequests
  /\ wanted' = [wanted EXCEPT !.nonce = Current + 1]
  /\ UNCHANGED <<rendered, asked, requests, heedless, ask, previous, feedVars>>

(***************************************************************************)
(* React.                                                                  *)
(***************************************************************************)
EffectsDue == asked # rendered \/ followed # feed

\* The token Insight follows: that of the answer it has, if it has one.
TokenOf(state) == IF state.phase = "ok" THEN state.token ELSE 0

Render ==
  /\ ~EffectsDue
  /\ rendered # wanted \/ ask.shown # ask.queued \/ live.shown # live.queued
  /\ rendered' = wanted
  /\ ask' = [ask EXCEPT !.shown = ask.queued]
  /\ live' = [live EXCEPT !.shown = live.queued]
  /\ previous' = IF ask.queued.phase = "ok" THEN ask.queued ELSE previous
  /\ feed' = TokenOf(ask.queued)
  /\ UNCHANGED <<wanted, asked, followed, requests, heedless, sources, snapshot>>

\* useAsk: the last request is aborted, and a fetch that listens is over.
AskEffect ==
  IF asked = rendered THEN UNCHANGED <<requests, heedless, ask>>
  ELSE \E listens \in BOOLEAN :
         LET aborted == [n \in Tickets |-> IF n = Current /\ listens THEN [requests[n] EXCEPT !.out = FALSE] ELSE requests[n]]
         IN  /\ heedless' = (heedless \/ (Current # 0 /\ requests[Current].out /\ ~listens))
             /\ IF rendered.question = Nothing
                THEN /\ requests' = aborted
                     /\ ask' = [ask EXCEPT !.queued = AskIdle]
                ELSE /\ requests' = Append(aborted, [question |-> rendered.question, out |-> TRUE])
                     /\ ask' = [ask EXCEPT !.queued = AskState("loading", Current + 1, 0)]

Done(s) == [sources EXCEPT ![s].done = TRUE]
Closed == IF sources = <<>> THEN sources ELSE Done(Len(sources))

\* useLiveResult: the last source is closed, and another opened if there is a
\* token; the browser may have none, or its constructor throw.
LiveEffect ==
  IF followed = feed THEN UNCHANGED <<sources, snapshot, live>>
  ELSE \/ /\ feed = 0
          /\ sources' = Closed
          /\ snapshot' = 0
          /\ live' = [live EXCEPT !.queued = LiveIdle]
       \/ /\ feed # 0 /\ Len(sources) < MaxSources
          /\ sources' = Append(Closed, [token |-> feed, done |-> FALSE, failures |-> 0])
          /\ snapshot' = 0
          /\ live' = [live EXCEPT !.queued = LiveState("connecting", 0)]
       \/ /\ feed # 0
          /\ sources' = Closed
          /\ live' = [live EXCEPT !.queued = LiveState("ended", 0)]
          /\ UNCHANGED snapshot

Effects ==
  /\ EffectsDue
  /\ AskEffect /\ LiveEffect
  /\ asked' = rendered /\ followed' = feed
  /\ UNCHANGED <<wanted, rendered, feed, previous>>

(***************************************************************************)
(* A request comes back, whichever it is: only the last ticket settles.  A *)
(* fetch that throws, a body that cannot be read or parsed, another        *)
(* version of the protocol and the server's own error are told apart by    *)
(* their messages only: with a question refused or not answerable they are *)
(* a panel in place of a chart.                                            *)
(***************************************************************************)
\* Slip: whatever comes back is the state.
SettlesAny(n) == TRUE

Settles(n) == n = Current

Outcomes(n) == {AskState("panel", n, 0), AskState("ok", n, 0), AskState("ok", n, n)}

Replies(n) ==
  /\ requests[n].out
  /\ requests' = [requests EXCEPT ![n].out = FALSE]
  /\ \E outcome \in Outcomes(n) :
       ask' = IF Settles(n) THEN [ask EXCEPT !.queued = outcome] ELSE ask
  /\ UNCHANGED <<wanted, rendered, asked, heedless, previous, feedVars>>

(***************************************************************************)
(* Events of a source.  Once it is done they change nothing.               *)
(***************************************************************************)
Listens(s) == ~sources[s].done

Queue(state) == live' = [live EXCEPT !.queued = state]

Stop(s, state) ==
  /\ sources' = Done(s)
  /\ Queue(state)

FeedOpens(s) ==
  /\ sources' = [sources EXCEPT ![s].failures = 0]
  /\ IF Listens(s) THEN Queue(LiveState("connecting", snapshot)) ELSE UNCHANGED live
  /\ UNCHANGED <<askVars, feed, followed, snapshot>>

\* A snapshot, the server's last word, an error it reports, or what is no frame.
FeedFrame(s) ==
  /\ IF ~Listens(s) THEN UNCHANGED <<sources, snapshot, live>>
     ELSE \/ /\ snapshot' = sources[s].token
             /\ sources' = [sources EXCEPT ![s].failures = 0]
             /\ Queue(LiveState("live", snapshot'))
          \/ Stop(s, LiveState("ended", snapshot)) /\ UNCHANGED snapshot
          \/ /\ sources' = [sources EXCEPT ![s].failures = 0]
             /\ Queue(LiveState("failed", snapshot))
             /\ UNCHANGED snapshot
  /\ UNCHANGED <<askVars, feed, followed>>

\* The connection broke: the browser tries again, unless it has given up.
FeedError(s, final) ==
  /\ IF ~Listens(s) THEN UNCHANGED <<sources, live>>
     ELSE IF final \/ sources[s].failures + 1 > MaxTransportFailures
     THEN Stop(s, LiveState("ended", snapshot))
     ELSE /\ sources' = [sources EXCEPT ![s].failures = @ + 1]
          /\ Queue(LiveState("connecting", snapshot))
  /\ UNCHANGED <<askVars, feed, followed, snapshot>>

React == Render \/ Effects

-----------------------------------------------------------------------------
\* React has nothing left to do.
Rested ==
  /\ ~EffectsDue /\ rendered = wanted
  /\ ask.shown = ask.queued /\ live.shown = live.queued

\* What is shown is of the question asked now and of its last request; without a question it is
\* nothing, unless a fetch answered after its abort (idle takes no ticket: use-ask.ts 53-62).
AnswerFitsQuestion ==
  Rested =>
    IF wanted.question = Nothing THEN ask.shown = AskIdle \/ heedless
    ELSE ask.shown.ticket = Current /\ requests[Current].question = wanted.question

Drawn ==
  IF ask.shown.phase = "ok" THEN ask.shown
  ELSE IF ask.shown.phase = "loading" THEN previous ELSE AskIdle

\* A snapshot is drawn only under the chart whose token it came by, and no other source is open.
LiveFollowsAnswer ==
  Rested =>
    /\ Drawn # AskIdle => live.shown.snapshot \in {0, Drawn.token}
    /\ \A s \in DOMAIN sources : ~sources[s].done => s = Len(sources) /\ sources[s].token = TokenOf(ask.shown)

(***************************************************************************)
(* Once React is at rest, the panel is of the question the host asks now   *)
(* and of the last request made for it, in whatever order replies come     *)
(* back; and live rows are drawn only under the chart of the answer whose  *)
(* token they came by, though a ref outlives the source that wrote it and  *)
(* frames arrive between a render and its effects (use-ask.ts 53-136,      *)
(* use-live-result.ts 94-146, insight.tsx 54-96).                          *)
(***************************************************************************)
PanelIsCurrent == AnswerFitsQuestion /\ LiveFollowsAnswer
=============================================================================
