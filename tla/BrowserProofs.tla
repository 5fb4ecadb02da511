---------------------------- MODULE BrowserProofs ----------------------------
(***************************************************************************)
(* For every set of questions and exchanges and every limit: what the page *)
(* shows is of the question asked now, live rows stand only under their    *)
(* own chart, and a socket never holds more than it takes.                 *)
(***************************************************************************)
EXTENDS Browser, TLAPS

(***************************************************************************)
(* The adapter.  Nothing is written before there is a response or after it *)
(* has closed, and the pump reads on only while the socket has room.       *)
(***************************************************************************)
AdapterTypes ==
  /\ pump \in [Exchanges -> {"idle", "collect", "handler", "read", "drain", "cancel", "ended"}]
  /\ socket \in [Exchanges -> Nat]
  /\ aborted \in [Exchanges -> BOOLEAN]

SocketOk(c) ==
  /\ pump[c] \in {"idle", "collect", "handler"} => socket[c] = 0
  /\ aborted[c] => socket[c] = 0
  /\ pump[c] = "read" => socket[c] < HighWater
  /\ socket[c] <= HighWater

AdapterInv == AdapterTypes /\ \A c \in Exchanges : SocketOk(c)

\* A step of one exchange leaves the others as they are.
LEMMA OneExchange ==
  ASSUME AdapterInv, NEW c \in Exchanges,
         NEW p \in {"idle", "collect", "handler", "read", "drain", "cancel", "ended"}, NEW n \in Nat,
         pump' = [pump EXCEPT ![c] = p],
         socket' = [socket EXCEPT ![c] = n],
         aborted' \in [Exchanges -> BOOLEAN],
         \A e \in Exchanges \ {c} : aborted'[e] = aborted[e],
         p \in {"idle", "collect", "handler"} => n = 0,
         aborted'[c] => n = 0,
         p = "read" => n < HighWater,
         n <= HighWater
  PROVE  AdapterInv'
<1>1. AdapterTypes'
  BY DEF AdapterInv, AdapterTypes
<1>2. pump'[c] = p /\ socket'[c] = n /\ \A e \in Exchanges \ {c} : pump'[e] = pump[e] /\ socket'[e] = socket[e]
  BY DEF AdapterInv, AdapterTypes
<1>3. SocketOk(c)'
  BY <1>2 DEF SocketOk
<1>4. ASSUME NEW e \in Exchanges \ {c} PROVE SocketOk(e)'
  BY <1>2 DEF AdapterInv, SocketOk
<1>. QED  BY <1>1, <1>3, <1>4 DEF AdapterInv

\* A step that leaves the socket and the signal alone, and goes on.
LEMMA SocketStays ==
  ASSUME AdapterInv, NEW c \in Exchanges,
         NEW p \in {"idle", "collect", "handler", "read", "drain", "cancel", "ended"},
         pump' = [pump EXCEPT ![c] = p], UNCHANGED <<socket, aborted>>,
         p \in {"idle", "collect", "handler"} => socket[c] = 0,
         p = "read" => socket[c] < HighWater
  PROVE  AdapterInv'
<1>1. socket[c] \in Nat /\ socket' = [socket EXCEPT ![c] = socket[c]] /\ SocketOk(c)
      /\ aborted' \in [Exchanges -> BOOLEAN]
  BY DEF AdapterInv, AdapterTypes
<1>. QED  BY <1>1, OneExchange DEF SocketOk

LEMMA AdapterStep ==
  ASSUME AdapterInv, NEW c \in Exchanges,
         \/ Request(c) \/ Proceeds(c) \/ Enqueue(c) \/ StreamEnds(c) \/ Sends(c) \/ Closes(c) \/ Forget(c)
  PROVE  AdapterInv'
<1>0. /\ SocketOk(c) /\ socket[c] \in Nat /\ aborted[c] \in BOOLEAN /\ HighWater \in Nat /\ HighWater >= 1
      /\ aborted \in [Exchanges -> BOOLEAN]
  BY AdapterAssumption DEF AdapterInv, AdapterTypes
<1>1. CASE Request(c)
  <2>1. PICK p \in {"collect", "handler"} : pump' = [pump EXCEPT ![c] = p]
    BY <1>1 DEF Request, Goes
  <2>2. socket[c] = 0 /\ UNCHANGED <<socket, aborted>>
    BY <1>0, <1>1 DEF Request, SocketOk
  <2>. QED  BY <2>1, <2>2, SocketStays
<1>2. CASE Collected(c) \/ TooLarge(c) \/ Rejects(c)
  BY <1>0, <1>2, SocketStays DEF Collected, TooLarge, Rejects, Goes, SocketOk
<1>3. CASE Handled(c)
  <2>1. PICK p \in {"read", "ended"} : pump' = [pump EXCEPT ![c] = p]
    BY <1>3 DEF Handled, Goes
  <2>2. socket[c] = 0 /\ UNCHANGED <<socket, aborted>>
    BY <1>0, <1>3 DEF Handled, SocketOk
  <2>3. socket[c] < HighWater
    BY <1>0, <2>2
  <2>. QED  BY <2>1, <2>2, <2>3, SocketStays
<1>4. CASE Pumps(c)
  <2>1. CASE aborted[c]
    <3>1. /\ pump' = [pump EXCEPT ![c] = "cancel"] /\ socket' = [socket EXCEPT ![c] = socket[c]]
          /\ UNCHANGED aborted
      BY <1>4, <2>1 DEF Pumps, Goes
    <3>. QED  BY <1>0, <3>1, OneExchange DEF SocketOk
  <2>2. CASE ~aborted[c]
    <3>1. /\ socket' = [socket EXCEPT ![c] = socket[c] + 1]
          /\ socket'[c] = socket[c] + 1
          /\ UNCHANGED aborted
      BY <1>4, <2>2 DEF Pumps, AdapterInv, AdapterTypes
    <3>2. pump' = [pump EXCEPT ![c] = IF socket[c] + 1 >= HighWater THEN "drain" ELSE "read"]
      BY <1>4, <2>2, <3>1 DEF Pumps, Goes, Full
    <3>3. socket[c] < HighWater
      BY <1>0, <1>4 DEF Pumps, SocketOk
    <3>4. PICK n \in Nat : n = socket[c] + 1 /\ n <= HighWater
      BY <1>0, <3>3
    <3>5. ~aborted'[c] /\ aborted' \in [Exchanges -> BOOLEAN] /\ socket' = [socket EXCEPT ![c] = n]
      BY <1>0, <2>2, <3>1, <3>4
    <3>6. CASE socket[c] + 1 >= HighWater
      <4>1. pump' = [pump EXCEPT ![c] = "drain"]
        BY <3>2, <3>6
      <4>. QED  BY <3>1, <3>4, <3>5, <4>1, OneExchange
    <3>7. CASE ~(socket[c] + 1 >= HighWater)
      <4>1. pump' = [pump EXCEPT ![c] = "read"]
        BY <3>2, <3>7
      <4>2. n < HighWater
        BY <1>0, <3>7, <3>4
      <4>. QED  BY <3>1, <3>4, <3>5, <4>1, <4>2, OneExchange
    <3>. QED  BY <3>6, <3>7
  <2>. QED  BY <2>1, <2>2
<1>5. CASE PumpDone(c) \/ Cancels(c)
  BY <1>0, <1>5, SocketStays DEF PumpDone, Cancels, Goes
<1>6. CASE Enqueue(c) \/ StreamEnds(c)
  BY <1>6 DEF Enqueue, StreamEnds, AdapterInv, AdapterTypes, SocketOk
<1>7. CASE Sends(c)
  <2>1. /\ socket[c] > 0 /\ ~aborted[c] /\ UNCHANGED aborted
        /\ socket' = [socket EXCEPT ![c] = socket[c] - 1]
        /\ socket'[c] = socket[c] - 1
    BY <1>7 DEF Sends, AdapterInv, AdapterTypes
  <2>2. socket[c] - 1 \in Nat /\ ~(pump[c] \in {"idle", "collect", "handler"}) /\ socket[c] - 1 < HighWater
    BY <1>0, <2>1 DEF SocketOk
  <2>3. PICK p \in {"read", "drain", "cancel", "ended"} : pump' = [pump EXCEPT ![c] = p]
    <3>1. CASE pump[c] = "drain" /\ socket'[c] = 0
      BY <1>7, <3>1 DEF Sends, Goes
    <3>2. CASE ~(pump[c] = "drain" /\ socket'[c] = 0)
      <4>1. pump' = [pump EXCEPT ![c] = pump[c]]
        BY <1>7, <3>2 DEF Sends, AdapterInv, AdapterTypes
      <4>2. pump[c] \in {"read", "drain", "cancel", "ended"}
        BY <2>2 DEF AdapterInv, AdapterTypes
      <4>. QED  BY <4>1, <4>2
    <3>. QED  BY <3>1, <3>2
  <2>4. PICK n \in Nat : n = socket[c] - 1 /\ n <= HighWater /\ n < HighWater
    BY <1>0, <2>2
  <2>5. ~aborted'[c] /\ aborted' \in [Exchanges -> BOOLEAN] /\ socket' = [socket EXCEPT ![c] = n]
    BY <1>0, <2>1, <2>4
  <2>. QED  BY <2>1, <2>3, <2>4, <2>5, OneExchange
<1>8. CASE Closes(c)
  <2>1. /\ aborted' = [aborted EXCEPT ![c] = TRUE]
        /\ socket' = [socket EXCEPT ![c] = 0]
    BY <1>8 DEF Closes
  <2>2. aborted' \in [Exchanges -> BOOLEAN] /\ \A e \in Exchanges \ {c} : aborted'[e] = aborted[e]
    BY <1>0, <2>1
  <2>3. PICK p \in {"idle", "collect", "handler", "read", "drain", "cancel", "ended"} : pump' = [pump EXCEPT ![c] = p]
    <3>1. CASE pump[c] = "drain"
      BY <1>8, <3>1 DEF Closes, Goes
    <3>2. CASE pump[c] # "drain"
      <4>1. pump' = [pump EXCEPT ![c] = pump[c]]
        BY <1>8, <3>2 DEF Closes, AdapterInv, AdapterTypes
      <4>2. pump[c] \in {"idle", "collect", "handler", "read", "drain", "cancel", "ended"}
        BY DEF AdapterInv, AdapterTypes
      <4>. QED  BY <4>1, <4>2
    <3>. QED  BY <3>1, <3>2
  <2>4. 0 \in Nat /\ 0 < HighWater /\ 0 <= HighWater
    BY <1>0
  <2>. QED  BY <2>1, <2>2, <2>3, <2>4, OneExchange
<1>9. CASE Forget(c)
  <2>1. /\ pump' = [pump EXCEPT ![c] = "idle"]
        /\ aborted' = [aborted EXCEPT ![c] = FALSE]
        /\ socket' = [socket EXCEPT ![c] = 0]
    <3>1. socket[c] = 0
      BY <1>0, <1>9 DEF Forget, SocketOk
    <3>. QED  BY <1>9, <3>1 DEF Forget, Goes, AdapterInv, AdapterTypes
  <2>2. aborted' \in [Exchanges -> BOOLEAN] /\ \A e \in Exchanges \ {c} : aborted'[e] = aborted[e]
    BY <1>0, <2>1
  <2>3. 0 \in Nat /\ 0 <= HighWater
    BY <1>0
  <2>. QED  BY <2>1, <2>2, <2>3, OneExchange
<1>. QED  BY <1>1, <1>2, <1>3, <1>4, <1>5, <1>6, <1>7, <1>8, <1>9 DEF Proceeds

-----------------------------------------------------------------------------
(***************************************************************************)
(* The page.  The queued state of useAsk is of the last request, if its    *)
(* effect last ran for a question, and idle if it ran for none.            *)
(***************************************************************************)
AskStates == [phase : {"idle", "loading", "panel", "ok"}, ticket : Nat, token : Nat]
Sent == [question : Questions, out : BOOLEAN]
Feeds == [token : Nat, done : BOOLEAN, failures : Nat]
LiveStates == [phase : {"idle", "connecting", "live", "ended", "failed"}, snapshot : Nat]

AskTypes ==
  /\ requests \in Seq(Sent)
  /\ ask \in [shown : AskStates, queued : AskStates]
  /\ heedless \in BOOLEAN

AskFits ==
  IF asked.question = Nothing
  THEN /\ ask.queued = AskIdle \/ heedless
       /\ Current # 0 /\ requests[Current].out => heedless
  ELSE /\ Current # 0 /\ requests[Current].question = asked.question
       /\ ask.queued.ticket = Current

Wishes == [question : Questions \union {Nothing}, nonce : Nat]
Asking == {wanted, rendered} \subseteq Wishes

(***************************************************************************)
(* The one source that is not done is the last one, of the token followed; *)
(* while there is one, what the ref holds is of that token; and so is what *)
(* the queued state shows.                                                 *)
(***************************************************************************)
LiveTypes ==
  /\ sources \in Seq(Feeds)
  /\ live \in [shown : LiveStates, queued : LiveStates]
  /\ {feed, followed, snapshot} \subseteq Nat

LiveFits ==
  /\ feed = TokenOf(ask.shown)
  /\ \A s \in DOMAIN sources :
       ~sources[s].done => /\ s = Len(sources) /\ sources[s].token = followed
                           /\ snapshot \in {0, followed}
  /\ live.queued.snapshot \in {0, followed}

PageInv == AskTypes /\ AskFits /\ Asking /\ LiveTypes /\ LiveFits

\* Sequences of any kind of element: one of them, one replaced, one more.
LEMMA Element ==
  ASSUME NEW S, NEW q \in Seq(S)
  PROVE  /\ Len(q) \in Nat /\ DOMAIN q = 1..Len(q)
         /\ \A n \in 1..Len(q) : q[n] \in S
  OBVIOUS

LEMMA Replaced ==
  ASSUME NEW S, NEW q \in Seq(S), NEW n \in 1..Len(q), NEW e \in S
  PROVE  LET r == [q EXCEPT ![n] = e] IN
         /\ r \in Seq(S) /\ Len(r) = Len(q) /\ DOMAIN r = 1..Len(q)
         /\ r[n] = e /\ \A m \in 1..Len(q) : m # n => r[m] = q[m]
  OBVIOUS

LEMMA OneMore ==
  ASSUME NEW S, NEW q \in Seq(S), NEW e \in S
  PROVE  LET r == Append(q, e) IN
         /\ r \in Seq(S) /\ Len(r) = Len(q) + 1 /\ DOMAIN r = 1..(Len(q) + 1)
         /\ r[Len(q) + 1] = e /\ \A m \in 1..Len(q) : r[m] = q[m]
  OBVIOUS

LEMMA PassStep ==
  ASSUME PageInv, (\E question \in Questions \union {Nothing} : Pass(question)) \/ Reload
  PROVE  PageInv' /\ UNCHANGED sources
<1>1. /\ UNCHANGED <<rendered, asked, requests, heedless, ask, feedVars>>
      /\ wanted' \in Wishes
  <2>1. CASE Reload
    <3>1. Current + 1 \in Nat
      BY DEF PageInv, AskTypes, Current
    <3>. QED  BY <2>1, <3>1 DEF Reload, PageInv, Asking, Wishes
  <2>2. ASSUME NEW question \in Questions \union {Nothing}, Pass(question)
        PROVE  wanted' \in Wishes
    BY <2>2 DEF Pass, PageInv, Asking, Wishes
  <2>. QED  BY <2>1, <2>2 DEF Pass, Reload
<1>. QED  BY <1>1 DEF PageInv, AskTypes, AskFits, Asking, LiveTypes, LiveFits, feedVars, Current, TokenOf

LEMMA RenderStep ==
  ASSUME PageInv, Render
  PROVE  PageInv' /\ UNCHANGED sources
<1>1. /\ UNCHANGED <<asked, followed, requests, heedless, sources, snapshot>>
      /\ rendered' = wanted /\ wanted' = wanted
      /\ ask' = [ask EXCEPT !.shown = ask.queued]
      /\ live' = [live EXCEPT !.shown = live.queued]
      /\ feed' = TokenOf(ask.queued)
  BY DEF Render
<1>2. AskTypes' /\ ask'.shown = ask.queued /\ ask'.queued = ask.queued
  BY <1>1 DEF PageInv, AskTypes
<1>3. live' \in [shown : LiveStates, queued : LiveStates] /\ live'.queued = live.queued
  BY <1>1 DEF PageInv, LiveTypes
<1>4. TokenOf(ask.queued) \in Nat
  BY DEF PageInv, AskTypes, AskStates, TokenOf
<1>5. LiveTypes'
  BY <1>1, <1>3, <1>4 DEF PageInv, LiveTypes
<1>6. LiveFits'
  BY <1>1, <1>2, <1>3 DEF PageInv, LiveFits, TokenOf
<1>7. AskFits' /\ Asking'
  BY <1>1, <1>2 DEF PageInv, AskFits, Asking, Current
<1>. QED  BY <1>1, <1>2, <1>5, <1>6, <1>7 DEF PageInv

\* useAsk's effect: the last request is aborted, and one may be sent.
LEMMA AskEffectFits ==
  ASSUME PageInv, AskEffect, asked' = rendered
  PROVE  AskTypes' /\ AskFits' /\ ask'.shown = ask.shown
<1> USE DEF PageInv
<1>1. CASE asked = rendered
  BY <1>1 DEF AskEffect, AskTypes, AskFits, Current
<1>2. CASE asked # rendered
  <2>1. PICK listens \in BOOLEAN :
          LET aborted_ == [n \in Tickets |-> IF n = Current /\ listens THEN [requests[n] EXCEPT !.out = FALSE] ELSE requests[n]]
          IN  /\ heedless' = (heedless \/ (Current # 0 /\ requests[Current].out /\ ~listens))
              /\ IF rendered.question = Nothing
                 THEN /\ requests' = aborted_
                      /\ ask' = [ask EXCEPT !.queued = AskIdle]
                 ELSE /\ requests' = Append(aborted_, [question |-> rendered.question, out |-> TRUE])
                      /\ ask' = [ask EXCEPT !.queued = AskState("loading", Current + 1, 0)]
    BY <1>2 DEF AskEffect
  <2> DEFINE old == [n \in Tickets |-> IF n = Current /\ listens THEN [requests[n] EXCEPT !.out = FALSE] ELSE requests[n]]
  <2>2. /\ old \in Seq(Sent) /\ Len(old) = Current /\ Current \in Nat
        /\ Current # 0 => old[Current].out = (requests[Current].out /\ ~listens)
    <3>1. requests \in Seq(Sent) /\ Tickets = 1..Current /\ Current \in Nat
      BY DEF AskTypes, Tickets, Current
    <3>2. \A n \in Tickets : requests[n] \in Sent
      BY <3>1, Element DEF Current
    <3>3. \A n \in Tickets : old[n] \in Sent
      BY <3>2 DEF Sent
    <3>4. Current # 0 => Current \in Tickets
      BY <3>1
    <3>5. Current # 0 => old[Current].out = (requests[Current].out /\ ~listens)
      <4>1. CASE listens
        BY <3>2, <3>4, <4>1 DEF Sent
      <4>2. CASE ~listens
        BY <3>2, <3>4, <4>2 DEF Sent
      <4>. QED  BY <4>1, <4>2
    <3>6. old = [n \in 1..Current |-> old[n]]
      BY <3>1
    <3> HIDE DEF old
    <3>7. old \in Seq(Sent) /\ Len(old) = Current
      BY <3>1, <3>3, <3>6
    <3>. QED  BY <3>1, <3>5, <3>7
  <2> HIDE DEF old
  <2>3. heedless' = (heedless \/ (Current # 0 /\ requests[Current].out /\ ~listens)) /\ heedless' \in BOOLEAN
    BY <2>1 DEF AskTypes
  <2>4. AskIdle \in AskStates /\ AskState("loading", Current + 1, 0) \in AskStates
    BY <2>2 DEF AskIdle, AskState, AskStates
  <2>5. CASE rendered.question = Nothing
    <3>1. requests' = old /\ ask' = [ask EXCEPT !.queued = AskIdle]
      BY <2>1, <2>5 DEF old
    <3>2. ask' \in [shown : AskStates, queued : AskStates] /\ ask'.queued = AskIdle /\ ask'.shown = ask.shown
      BY <2>4, <3>1 DEF AskTypes
    <3>3. Current' = Current
      BY <2>2, <3>1 DEF Current
    <3>4. Current # 0 /\ requests'[Current].out => heedless'
      BY <2>2, <2>3, <3>1
    <3>. QED  BY <2>2, <2>3, <2>5, <3>1, <3>2, <3>3, <3>4 DEF AskTypes, AskFits
  <2>6. CASE rendered.question # Nothing
    <3>1. /\ requests' = Append(old, [question |-> rendered.question, out |-> TRUE])
          /\ ask' = [ask EXCEPT !.queued = AskState("loading", Current + 1, 0)]
      BY <2>1, <2>6 DEF old
    <3>2. /\ ask' \in [shown : AskStates, queued : AskStates]
          /\ ask'.queued = AskState("loading", Current + 1, 0) /\ ask'.shown = ask.shown
      BY <2>4, <3>1 DEF AskTypes
    <3>3. [question |-> rendered.question, out |-> TRUE] \in Sent
      BY <2>6 DEF Asking, Wishes, Sent
    <3>4. /\ requests' \in Seq(Sent)
          /\ Current' = Current + 1
          /\ requests'[Current + 1] = [question |-> rendered.question, out |-> TRUE]
      BY <2>2, <3>1, <3>3, OneMore DEF Current
    <3>5. ask'.queued.ticket = Current'
      BY <3>2, <3>4 DEF AskState
    <3>6. AskTypes'
      BY <2>3, <3>2, <3>4 DEF AskTypes
    <3>7. Current' # 0 /\ requests'[Current'].question = rendered.question
      BY <2>2, <3>4
    <3>. QED  BY <2>6, <3>2, <3>5, <3>6, <3>7 DEF AskFits
  <2>. QED  BY <2>5, <2>6
<1>. QED  BY <1>1, <1>2

\* Closing the last source closes the only one that was not done.
LEMMA AllClosed ==
  ASSUME LiveTypes, LiveFits
  PROVE  /\ Closed \in Seq(Feeds)
         /\ Len(Closed) = Len(sources)
         /\ \A s \in DOMAIN Closed : Closed[s].done
<1>1. sources \in Seq(Feeds)
  BY DEF LiveTypes
<1>2. CASE sources = <<>>
  BY <1>1, <1>2 DEF Closed
<1>3. CASE sources # <<>>
  <2> DEFINE n == Len(sources)
  <2>1. n \in DOMAIN sources /\ n \in Nat /\ DOMAIN sources = 1..n
    BY <1>1, <1>3, Element
  <2>2. Closed = [sources EXCEPT ![n].done = TRUE]
    BY <1>3 DEF Closed, Done
  <2>3. sources[n] \in Feeds
    BY <1>1, <2>1, Element
  <2>4. PICK last \in Feeds :
          last.done /\ Closed = [sources EXCEPT ![n] = last]
    <3>1. [sources[n] EXCEPT !.done = TRUE] \in Feeds /\ [sources[n] EXCEPT !.done = TRUE].done
      BY <2>3 DEF Feeds
    <3>. QED  BY <2>2, <3>1
  <2>5. /\ Closed \in Seq(Feeds) /\ Len(Closed) = n
        /\ DOMAIN Closed = 1..n
    BY <1>1, <2>1, <2>4, Replaced
  <2>6. \A s \in 1..n : s # n => sources[s].done
    BY <2>1 DEF LiveFits
  <2>7. \A s \in 1..n : Closed[s].done
    BY <1>1, <2>1, <2>4, <2>6, Replaced
  <2>. QED  BY <2>5, <2>7
<1>. QED  BY <1>2, <1>3

LEMMA LiveEffectFits ==
  ASSUME PageInv, LiveEffect, followed' = feed, feed' = feed, ask'.shown = ask.shown
  PROVE  LiveTypes' /\ LiveFits' /\ DOMAIN sources \subseteq DOMAIN sources'
<1> USE DEF PageInv
<1>1. CASE followed = feed
  BY <1>1 DEF LiveEffect, LiveTypes, LiveFits, TokenOf
<1>2. CASE followed # feed
  <2>1. /\ Closed \in Seq(Feeds)
        /\ Len(Closed) = Len(sources)
        /\ \A s \in DOMAIN Closed : Closed[s].done
        /\ Len(sources) \in Nat /\ DOMAIN sources = 1..Len(sources) /\ feed \in Nat /\ snapshot \in Nat
    BY AllClosed DEF LiveTypes
  <2>2. TokenOf(ask'.shown) = feed
    BY DEF LiveFits, TokenOf
  <2>3. ASSUME NEW state \in LiveStates, live' = [live EXCEPT !.queued = state]
        PROVE  live' \in [shown : LiveStates, queued : LiveStates] /\ live'.queued = state
    BY <2>3 DEF LiveTypes
  <2>4. \A phase \in {"idle", "connecting", "live", "ended", "failed"} :
          LiveState(phase, 0) \in LiveStates /\ LiveState(phase, 0).snapshot = 0
    BY DEF LiveState, LiveStates
  <2>5. ASSUME sources' = Closed, snapshot' \in Nat,
               NEW state \in LiveStates, state.snapshot = 0, live' = [live EXCEPT !.queued = state]
        PROVE  LiveTypes' /\ LiveFits' /\ DOMAIN sources \subseteq DOMAIN sources'
    <3>1. LiveTypes'
      BY <2>1, <2>3, <2>5 DEF LiveTypes
    <3>2. LiveFits'
      BY <2>1, <2>2, <2>3, <2>5 DEF LiveFits, TokenOf
    <3>3. DOMAIN sources' = 1..Len(sources)
      BY <2>1, <2>5
    <3>. QED  BY <2>1, <3>1, <3>2, <3>3
  <2>6. CASE feed = 0 /\ sources' = Closed /\ snapshot' = 0 /\ live' = [live EXCEPT !.queued = LiveIdle]
    <3>1. LiveIdle \in LiveStates /\ LiveIdle.snapshot = 0
      BY <2>4 DEF LiveIdle
    <3>2. snapshot' \in Nat
      BY <2>6
    <3>. QED  BY <2>5, <2>6, <3>1, <3>2
  <2>7. CASE sources' = Closed /\ live' = [live EXCEPT !.queued = LiveState("ended", 0)] /\ UNCHANGED snapshot
    <3>1. LiveState("ended", 0) \in LiveStates /\ LiveState("ended", 0).snapshot = 0
      BY <2>4
    <3>2. snapshot' \in Nat
      BY <2>1, <2>7
    <3>. QED  BY <2>5, <2>7, <3>1, <3>2
  <2>8. CASE /\ sources' = Append(Closed, [token |-> feed, done |-> FALSE, failures |-> 0])
             /\ snapshot' = 0
             /\ live' = [live EXCEPT !.queued = LiveState("connecting", 0)]
    <3>1. PICK new \in Feeds :
            new.token = feed /\ ~new.done /\ sources' = Append(Closed, new)
      <4>1. [token |-> feed, done |-> FALSE, failures |-> 0] \in Feeds
        BY <2>1 DEF Feeds
      <4>. QED  BY <2>8, <4>1
    <3>2. /\ sources' \in Seq(Feeds)
          /\ Len(sources') = Len(sources) + 1
          /\ DOMAIN sources' = 1..(Len(sources) + 1)
          /\ \A s \in 1..Len(sources) : sources'[s] = Closed[s]
          /\ sources'[Len(sources) + 1] = new
      BY <2>1, <3>1, OneMore
    <3>3. LiveState("connecting", 0) \in LiveStates /\ LiveState("connecting", 0).snapshot = 0
      BY <2>4
    <3>4. live' \in [shown : LiveStates, queued : LiveStates] /\ live'.queued.snapshot = 0
      BY <2>3, <2>8, <3>3
    <3>5. LiveTypes'
      BY <2>1, <2>8, <3>2, <3>4 DEF LiveTypes
    <3>6. \A s \in DOMAIN sources' : s # Len(sources) + 1 => sources'[s].done
      BY <2>1, <3>2
    <3>7. LiveFits'
      BY <2>2, <2>8, <3>1, <3>2, <3>4, <3>6 DEF LiveFits, TokenOf
    <3>8. DOMAIN sources \subseteq DOMAIN sources'
      BY <2>1, <3>2
    <3>. QED  BY <3>5, <3>7, <3>8
  <2>. QED  BY <1>2, <2>6, <2>7, <2>8 DEF LiveEffect
<1>. QED  BY <1>1, <1>2

LEMMA EffectsStep ==
  ASSUME PageInv, Effects
  PROVE  PageInv' /\ DOMAIN sources \subseteq DOMAIN sources'
<1>1. AskEffect /\ LiveEffect /\ asked' = rendered /\ followed' = feed /\ UNCHANGED <<wanted, rendered, feed>>
  BY DEF Effects
<1>2. AskTypes' /\ AskFits' /\ ask'.shown = ask.shown
  BY <1>1, AskEffectFits
<1>3. LiveTypes' /\ LiveFits' /\ DOMAIN sources \subseteq DOMAIN sources'
  BY <1>1, <1>2, LiveEffectFits
<1>4. Asking'
  BY <1>1 DEF PageInv, Asking
<1>. QED  BY <1>2, <1>3, <1>4 DEF PageInv

\* A reply settles only if it is of the last ticket.
LEMMA RepliesStep ==
  ASSUME PageInv, NEW n \in Tickets, Replies(n)
  PROVE  PageInv' /\ UNCHANGED sources
<1> USE DEF PageInv
<1>1. /\ requests \in Seq(Sent) /\ Current \in Nat /\ Tickets = 1..Current
      /\ requests[n] \in Sent /\ requests[n].out
      /\ requests' = [requests EXCEPT ![n].out = FALSE]
      /\ UNCHANGED <<wanted, rendered, asked, heedless, feedVars>>
  BY Element DEF AskTypes, Tickets, Current, Replies
<1>2. PICK r \in Sent :
        ~r.out /\ r.question = requests[n].question /\ requests' = [requests EXCEPT ![n] = r]
  <2>1. [requests[n] EXCEPT !.out = FALSE] \in Sent
    BY <1>1 DEF Sent
  <2>2. /\ ~[requests[n] EXCEPT !.out = FALSE].out
        /\ [requests[n] EXCEPT !.out = FALSE].question = requests[n].question
    BY <1>1 DEF Sent
  <2>. QED  BY <1>1, <2>1, <2>2
<1>3. /\ requests' \in Seq(Sent) /\ Current' = Current
      /\ requests'[n] = r /\ \A m \in 1..Current : m # n => requests'[m] = requests[m]
  <2>1. requests \in Seq(Sent) /\ n \in 1..Len(requests) /\ r \in Sent
    BY <1>1, <1>2 DEF Current
  <2>2. [requests EXCEPT ![n] = r] = requests'
    BY <1>2
  <2> HIDE <1>2
  <2>3. /\ requests' \in Seq(Sent) /\ Len(requests') = Len(requests)
        /\ requests'[n] = r /\ \A m \in 1..Len(requests) : m # n => requests'[m] = requests[m]
    BY <2>1, <2>2, Replaced
  <2>. QED  BY <2>3 DEF Current
<1>4. PICK outcome \in Outcomes(n) : ask' = IF Settles(n) THEN [ask EXCEPT !.queued = outcome] ELSE ask
  BY DEF Replies
<1>5. outcome \in AskStates /\ outcome.ticket = n
  <2>1. n \in Nat
    BY <1>1
  <2>. QED  BY <1>4, <2>1 DEF Outcomes, AskState, AskStates
<1>6. /\ ask' \in [shown : AskStates, queued : AskStates] /\ ask'.shown = ask.shown
      /\ IF n = Current THEN ask'.queued = outcome ELSE ask'.queued = ask.queued
  <2>1. CASE n = Current
    <3>1. ask' = [ask EXCEPT !.queued = outcome]
      BY <1>4, <2>1 DEF Settles
    <3>. QED  BY <1>5, <2>1, <3>1 DEF AskTypes
  <2>2. CASE n # Current
    BY <1>4, <2>2 DEF Settles, AskTypes
  <2>. QED  BY <2>1, <2>2
<1>7. AskTypes'
  BY <1>1, <1>3, <1>6 DEF AskTypes
<1>8. AskFits'
  <2>1. CASE n = Current
    BY <1>1, <1>2, <1>3, <1>5, <1>6, <2>1 DEF AskFits
  <2>2. CASE n # Current
    <3>1. Current # 0 => Current \in 1..Current
      BY <1>1
    <3>. QED  BY <1>1, <1>3, <1>6, <2>2, <3>1 DEF AskFits
  <2>. QED  BY <2>1, <2>2
<1>9. Asking' /\ LiveTypes' /\ LiveFits'
  BY <1>1, <1>6 DEF Asking, LiveTypes, LiveFits, TokenOf, feedVars
<1>. QED  BY <1>1, <1>7, <1>8, <1>9 DEF feedVars

(***************************************************************************)
(* Events of a source that is not done: it is the last, of the token       *)
(* followed, so what it brings is of that token.  The others are ignored.  *)
(***************************************************************************)
LEMMA SourceChanges ==
  ASSUME PageInv, NEW s \in DOMAIN sources, ~sources[s].done,
         NEW f \in Feeds, f.token = sources[s].token,
         NEW state \in LiveStates, state.snapshot \in {0, followed},
         sources' = [sources EXCEPT ![s] = f],
         live' = [live EXCEPT !.queued = state],
         snapshot' \in {snapshot, followed},
         UNCHANGED <<askVars, feed, followed>>
  PROVE  PageInv' /\ DOMAIN sources' = DOMAIN sources
<1> USE DEF PageInv
<1>1. /\ sources \in Seq(Feeds) /\ s \in 1..Len(sources) /\ DOMAIN sources = 1..Len(sources)
      /\ s = Len(sources) /\ sources[s].token = followed /\ snapshot \in {0, followed}
  BY Element DEF LiveTypes, LiveFits
<1>2. /\ sources' \in Seq(Feeds) /\ Len(sources') = Len(sources) /\ DOMAIN sources' = 1..Len(sources)
      /\ sources'[s] = f /\ \A m \in 1..Len(sources) : m # s => sources'[m] = sources[m]
  BY <1>1, Replaced
<1>3. live' \in [shown : LiveStates, queued : LiveStates] /\ live'.queued = state
  BY DEF LiveTypes
<1>4. LiveTypes'
  BY <1>2, <1>3 DEF LiveTypes
<1>5. LiveFits'
  BY <1>1, <1>2, <1>3 DEF LiveFits, TokenOf, askVars
<1>6. AskTypes' /\ AskFits' /\ Asking'
  BY DEF AskTypes, AskFits, Asking, askVars, Current
<1>. QED  BY <1>1, <1>2, <1>4, <1>5, <1>6

\* One that is done keeps what it has but for its count of failures.
LEMMA DoneChanges ==
  ASSUME PageInv, NEW s \in DOMAIN sources, sources[s].done,
         NEW f \in Feeds, f.done,
         sources' = [sources EXCEPT ![s] = f],
         UNCHANGED <<askVars, feed, followed, live, snapshot>>
  PROVE  PageInv' /\ DOMAIN sources' = DOMAIN sources
<1> USE DEF PageInv
<1>1. sources \in Seq(Feeds) /\ s \in 1..Len(sources) /\ DOMAIN sources = 1..Len(sources)
  BY Element DEF LiveTypes
<1>2. /\ sources' \in Seq(Feeds) /\ Len(sources') = Len(sources) /\ DOMAIN sources' = 1..Len(sources)
      /\ sources'[s] = f /\ \A m \in 1..Len(sources) : m # s => sources'[m] = sources[m]
  BY <1>1, Replaced
<1>3. LiveTypes' /\ LiveFits'
  BY <1>1, <1>2 DEF LiveTypes, LiveFits, TokenOf, askVars
<1>4. AskTypes' /\ AskFits' /\ Asking'
  BY DEF AskTypes, AskFits, Asking, askVars, Current
<1>. QED  BY <1>1, <1>2, <1>3, <1>4

LEMMA NothingChanges ==
  ASSUME PageInv, UNCHANGED insightVars
  PROVE  PageInv' /\ DOMAIN sources' = DOMAIN sources
  BY DEF PageInv, AskTypes, AskFits, Asking, LiveTypes, LiveFits, TokenOf, Current, insightVars, askVars, feedVars

\* What a source may become, one field at a time.
LEMMA FeedFields ==
  ASSUME NEW f \in Feeds, NEW n \in Nat
  PROVE  /\ [f EXCEPT !.failures = n] \in Feeds
         /\ [f EXCEPT !.failures = n].token = f.token
         /\ [f EXCEPT !.failures = n].done = f.done
         /\ [f EXCEPT !.done = TRUE] \in Feeds
         /\ [f EXCEPT !.done = TRUE].token = f.token
         /\ [f EXCEPT !.done = TRUE].done
  BY DEF Feeds

LEMMA StateFields ==
  ASSUME NEW phase \in {"idle", "connecting", "live", "ended", "failed"}, NEW of \in Nat
  PROVE  LiveState(phase, of) \in LiveStates /\ LiveState(phase, of).snapshot = of
  BY DEF LiveState, LiveStates

LEMMA FeedStep ==
  ASSUME PageInv, NEW s \in DOMAIN sources,
         FeedOpens(s) \/ FeedFrame(s) \/ FeedError(s, TRUE) \/ FeedError(s, FALSE)
  PROVE  PageInv' /\ DOMAIN sources' = DOMAIN sources
<1>1. PICK f \in Feeds : f = sources[s]
  <2>1. sources \in Seq(Feeds)
    BY DEF PageInv, LiveTypes
  <2>. QED  BY <2>1, Element
<1>2. f.failures \in Nat /\ f.failures + 1 \in Nat /\ f.token \in Nat /\ snapshot \in Nat /\ 0 \in Nat
  <2>1. snapshot \in Nat
    BY DEF PageInv, LiveTypes
  <2>2. f.failures \in Nat /\ f.token \in Nat
    BY DEF Feeds
  <2>. QED  BY <2>1, <2>2
<1>3. ~f.done => f.token = followed /\ snapshot \in {0, followed}
  BY <1>1 DEF PageInv, LiveFits
<1>4. UNCHANGED <<askVars, feed, followed>>
  BY DEF FeedOpens, FeedFrame, FeedError
\* What a source may become, and what may be queued.
<1>5. PICK alive \in Feeds : alive = [f EXCEPT !.failures = 0] /\ alive.token = f.token /\ alive.done = f.done
  BY <1>2, FeedFields
<1>6. PICK older \in Feeds : older = [f EXCEPT !.failures = f.failures + 1] /\ older.token = f.token /\ older.done = f.done
  BY <1>2, FeedFields
<1>7. PICK over \in Feeds : over = [f EXCEPT !.done = TRUE] /\ over.token = f.token
  BY <1>2, FeedFields
<1>8. ASSUME NEW phase \in {"idle", "connecting", "live", "ended", "failed"}, NEW of \in Nat
      PROVE  \E state \in LiveStates : state = LiveState(phase, of) /\ state.snapshot = of
  BY StateFields
<1>9. CASE FeedOpens(s)
  <2>1. sources' = [sources EXCEPT ![s] = alive] /\ UNCHANGED snapshot
    BY <1>1, <1>5, <1>9 DEF FeedOpens
  <2>2. CASE f.done
    <3>1. UNCHANGED live
      BY <1>1, <1>9, <2>2 DEF FeedOpens, Listens
    <3>. QED  BY <1>1, <1>4, <1>5, <2>1, <2>2, <3>1, DoneChanges
  <2>3. CASE ~f.done
    <3>1. PICK state \in LiveStates : state = LiveState("connecting", snapshot) /\ state.snapshot = snapshot
      BY <1>2, <1>8
    <3>2. live' = [live EXCEPT !.queued = state]
      BY <1>1, <1>9, <2>3, <3>1 DEF FeedOpens, Listens, Queue
    <3>. QED  BY <1>1, <1>3, <1>4, <1>5, <2>1, <2>3, <3>1, <3>2, SourceChanges
  <2>. QED  BY <2>2, <2>3
<1>10. CASE FeedFrame(s) /\ ~f.done
  <2>1. CASE /\ snapshot' = f.token /\ sources' = [sources EXCEPT ![s] = alive]
             /\ live' = [live EXCEPT !.queued = LiveState("live", f.token)]
    <3>1. PICK state \in LiveStates : state = LiveState("live", f.token) /\ state.snapshot = f.token
      BY <1>2, <1>8
    <3>. QED  BY <1>1, <1>3, <1>4, <1>5, <1>10, <2>1, <3>1, SourceChanges
  <2>2. CASE /\ UNCHANGED snapshot /\ sources' = [sources EXCEPT ![s] = over]
             /\ live' = [live EXCEPT !.queued = LiveState("ended", snapshot)]
    <3>1. PICK state \in LiveStates : state = LiveState("ended", snapshot) /\ state.snapshot = snapshot
      BY <1>2, <1>8
    <3>. QED  BY <1>1, <1>3, <1>4, <1>7, <1>10, <2>2, <3>1, SourceChanges
  <2>3. CASE /\ UNCHANGED snapshot /\ sources' = [sources EXCEPT ![s] = alive]
             /\ live' = [live EXCEPT !.queued = LiveState("failed", snapshot)]
    <3>1. PICK state \in LiveStates : state = LiveState("failed", snapshot) /\ state.snapshot = snapshot
      BY <1>2, <1>8
    <3>. QED  BY <1>1, <1>3, <1>4, <1>5, <1>10, <2>3, <3>1, SourceChanges
  <2>. QED  BY <1>1, <1>5, <1>7, <1>10, <2>1, <2>2, <2>3 DEF FeedFrame, Listens, Queue, Stop, Done
<1>11. CASE (FeedError(s, TRUE) \/ FeedError(s, FALSE)) /\ ~f.done
  <2>1. UNCHANGED snapshot
    BY <1>11 DEF FeedError
  <2>2. CASE /\ sources' = [sources EXCEPT ![s] = over]
             /\ live' = [live EXCEPT !.queued = LiveState("ended", snapshot)]
    <3>1. PICK state \in LiveStates : state = LiveState("ended", snapshot) /\ state.snapshot = snapshot
      BY <1>2, <1>8
    <3>. QED  BY <1>1, <1>3, <1>4, <1>7, <1>11, <2>1, <2>2, <3>1, SourceChanges
  <2>3. CASE /\ sources' = [sources EXCEPT ![s] = older]
             /\ live' = [live EXCEPT !.queued = LiveState("connecting", snapshot)]
    <3>1. PICK state \in LiveStates : state = LiveState("connecting", snapshot) /\ state.snapshot = snapshot
      BY <1>2, <1>8
    <3>. QED  BY <1>1, <1>3, <1>4, <1>6, <1>11, <2>1, <2>3, <3>1, SourceChanges
  <2>. QED  BY <1>1, <1>6, <1>7, <1>11, <2>2, <2>3 DEF FeedError, Listens, Queue, Stop, Done
<1>12. CASE (FeedFrame(s) \/ FeedError(s, TRUE) \/ FeedError(s, FALSE)) /\ f.done
  <2>1. UNCHANGED insightVars
    BY <1>1, <1>12 DEF FeedFrame, FeedError, Listens, insightVars, askVars, feedVars
  <2>. QED  BY <2>1, NothingChanges
<1>. QED  BY <1>9, <1>10, <1>11, <1>12

-----------------------------------------------------------------------------
(***************************************************************************)
(* The page and the adapter: an exchange that is not idle was opened by an *)
(* event source, which is there for good.                                  *)
(***************************************************************************)
Carried == \A c \in Exchanges : pump[c] # "idle" => carries[c] \in DOMAIN sources

BrowserInv == AdapterInv /\ PageInv /\ Carried /\ carries \in [Exchanges -> Nat]

LEMMA PageStep ==
  ASSUME BrowserInv, Page, UNCHANGED <<adapterVars, carries>>
  PROVE  BrowserInv'
<1> USE DEF BrowserInv
<1>1. PageInv' /\ DOMAIN sources \subseteq DOMAIN sources'
  <2>1. CASE (\E question \in Questions \union {Nothing} : Pass(question)) \/ Reload
    BY <2>1, PassStep
  <2>2. CASE React
    BY <2>2, RenderStep, EffectsStep DEF React
  <2>3. CASE \E n \in Tickets : Replies(n)
    BY <2>3, RepliesStep
  <2>. QED  BY <2>1, <2>2, <2>3 DEF Page
<1>2. AdapterInv'
  BY DEF adapterVars, AdapterInv, AdapterTypes, SocketOk
<1>3. Carried' /\ carries' \in [Exchanges -> Nat]
  BY <1>1 DEF adapterVars, Carried
<1>. QED  BY <1>1, <1>2, <1>3

LEMMA ExchangeStep ==
  ASSUME BrowserInv, NEW c \in Exchanges,
         \/ \E s \in DOMAIN sources : Connect(c, s)
         \/ Serves(c) \/ Arrives(c) \/ Breaks(c) \/ Abandons(c) \/ Leaves(c)
         \/ (Enqueue(c) \/ StreamEnds(c)) /\ UNCHANGED <<insightVars, carries>>
  PROVE  BrowserInv'
<1> USE DEF BrowserInv
<1>1. /\ \/ Request(c) \/ Proceeds(c) \/ Enqueue(c) \/ StreamEnds(c) \/ Sends(c) \/ Closes(c) \/ Forget(c)
      /\ AdapterInv'
  <2>1. \/ Request(c) \/ Proceeds(c) \/ Enqueue(c) \/ StreamEnds(c) \/ Sends(c) \/ Closes(c) \/ Forget(c)
    BY DEF Connect, Serves, Answered, Arrives, Breaks, Abandons, Leaves, Proceeds
  <2>. QED  BY <2>1, AdapterStep
<1>2. \A e \in Exchanges \ {c} : pump'[e] = pump[e]
  BY <1>1 DEF Request, Proceeds, Collected, TooLarge, Rejects, Handled, Pumps, PumpDone, Cancels, Enqueue,
              StreamEnds, Sends, Closes, Forget, Goes, AdapterInv, AdapterTypes
<1>3. /\ PageInv' /\ DOMAIN sources' = DOMAIN sources
  <2>1. CASE UNCHANGED insightVars
    BY <2>1, NothingChanges
  <2>2. CASE ~UNCHANGED insightVars
    <3>1. /\ \/ FeedOpens(carries[c]) \/ FeedFrame(carries[c])
             \/ FeedError(carries[c], TRUE) \/ FeedError(carries[c], FALSE)
          /\ Handled(c) \/ TooLarge(c) \/ Sends(c) \/ Closes(c)
      BY <2>2 DEF Connect, Serves, Answered, Arrives, Breaks, Abandons, Leaves
    <3>2. pump[c] # "idle"
      BY <3>1, AdapterAssumption DEF Handled, TooLarge, Sends, Closes, AdapterInv, AdapterTypes, SocketOk
    <3>3. carries[c] \in DOMAIN sources
      BY <3>2 DEF Carried
    <3>. QED  BY <3>1, <3>3, FeedStep
  <2>. QED  BY <2>1, <2>2
<1>4. Carried' /\ carries' \in [Exchanges -> Nat]
  <2>1. ASSUME NEW s \in DOMAIN sources, Connect(c, s)
        PROVE  Carried' /\ carries' \in [Exchanges -> Nat]
    <3>1. s \in Nat
      BY Element DEF PageInv, LiveTypes
    <3>. QED  BY <1>2, <1>3, <2>1, <3>1 DEF Connect, Carried
  <2>2. CASE Leaves(c)
    <3>1. pump'[c] = "idle" /\ carries' = [carries EXCEPT ![c] = 0]
      BY <2>2 DEF Leaves, Forget, Goes, AdapterInv, AdapterTypes
    <3>. QED  BY <1>2, <1>3, <3>1 DEF Carried
  <2>3. CASE \/ Serves(c) \/ Arrives(c) \/ Breaks(c) \/ Abandons(c)
             \/ (Enqueue(c) \/ StreamEnds(c)) /\ UNCHANGED <<insightVars, carries>>
    <3>1. UNCHANGED carries
      BY <2>3 DEF Serves, Answered, Arrives, Breaks, Abandons
    <3>2. pump[c] # "idle" \/ pump'[c] = "idle"
      <4>1. \/ Proceeds(c) \/ Enqueue(c) \/ StreamEnds(c) \/ Sends(c) \/ Closes(c)
        BY <2>3 DEF Serves, Answered, Arrives, Breaks, Abandons, Proceeds
      <4>. QED  BY <4>1, AdapterAssumption DEF Proceeds, Collected, TooLarge, Rejects, Handled, Pumps, PumpDone, Cancels,
                   Enqueue, StreamEnds, Sends, Closes, AdapterInv, AdapterTypes, SocketOk
    <3>. QED  BY <1>2, <1>3, <3>1, <3>2 DEF Carried
  <2>. QED  BY <2>1, <2>2, <2>3
<1>. QED  BY <1>1, <1>3, <1>4

LEMMA BrowserInitially == InitBrowser => BrowserInv
<1> SUFFICES ASSUME InitBrowser PROVE BrowserInv
  OBVIOUS
<1>1. AdapterInv
  BY AdapterAssumption DEF InitBrowser, InitAdapter, AdapterInv, AdapterTypes, SocketOk
<1>2. AskIdle \in AskStates /\ LiveIdle \in LiveStates /\ LiveIdle.snapshot = 0 /\ TokenOf(AskIdle) = 0
  BY DEF AskIdle, AskState, AskStates, LiveIdle, LiveState, LiveStates, TokenOf
<1>3. PageInv
  <2>1. /\ wanted = [question |-> Nothing, nonce |-> 0] /\ rendered = wanted /\ asked = wanted
        /\ feed = 0 /\ followed = 0 /\ snapshot = 0 /\ requests = <<>> /\ sources = <<>> /\ heedless = FALSE
        /\ ask = [shown |-> AskIdle, queued |-> AskIdle] /\ live = [shown |-> LiveIdle, queued |-> LiveIdle]
    BY DEF InitBrowser, InitInsight
  <2>2. AskTypes
    <3>1. requests \in Seq(Sent)
      BY <2>1
    <3>2. ask \in [shown : AskStates, queued : AskStates]
      BY <1>2, <2>1
    <3>. QED  BY <2>1, <3>1, <3>2 DEF AskTypes
  <2>3. ask.queued = AskIdle /\ ask.shown = AskIdle /\ live.queued = LiveIdle /\ Len(requests) = 0 /\ asked.question = Nothing
    BY <2>1
  <2>4. AskFits
    BY <2>3 DEF AskFits, Current
  <2>5. Asking
    <3>1. wanted \in Wishes
      BY <2>1 DEF Wishes
    <3>. QED  BY <2>1, <3>1 DEF Asking
  <2>6. LiveTypes
    BY <1>2, <2>1 DEF LiveTypes
  <2>7. LiveFits
    <3>1. DOMAIN sources = {}
      BY <2>1
    <3>. QED  BY <1>2, <2>1, <2>3, <3>1 DEF LiveFits
  <2>. QED  BY <2>2, <2>4, <2>5, <2>6, <2>7 DEF PageInv
<1>4. Carried /\ carries \in [Exchanges -> Nat]
  BY DEF InitBrowser, InitAdapter, Carried
<1>. QED  BY <1>1, <1>3, <1>4 DEF BrowserInv

LEMMA BrowserStep == BrowserInv /\ [NextBrowser]_browserVars => BrowserInv'
<1> SUFFICES ASSUME BrowserInv, [NextBrowser]_browserVars PROVE BrowserInv'
  OBVIOUS
<1>1. CASE UNCHANGED browserVars
  <2>1. PageInv' /\ DOMAIN sources' = DOMAIN sources
    BY <1>1, NothingChanges DEF browserVars, BrowserInv
  <2>. QED  BY <1>1, <2>1 DEF browserVars, adapterVars, BrowserInv, AdapterInv, AdapterTypes, SocketOk, Carried
<1>. QED  BY <1>1, PageStep, ExchangeStep DEF NextBrowser

LEMMA BrowserInvariance == BrowserSpec => []BrowserInv
  BY BrowserInitially, BrowserStep, PTL DEF BrowserSpec

(***************************************************************************)
(* Backpressure reaches the web stream: what the pump has written and the  *)
(* socket has not sent stays within what the socket takes (node.ts         *)
(* 128-153), whatever opens, breaks and abandons the connections.          *)
(***************************************************************************)
THEOREM Backpressure == BrowserSpec => []BackpressureHolds
<1>1. BrowserInv => BackpressureHolds
  BY DEF BrowserInv, AdapterInv, SocketOk, BackpressureHolds
<1>. QED  BY <1>1, BrowserInvariance, PTL

(***************************************************************************)
(* At rest the page shows the last request of the question asked now, and  *)
(* live rows only under the chart of their own token, in whatever order    *)
(* replies, frames, renders and effects come (use-ask.ts 53-136,           *)
(* use-live-result.ts 94-146, insight.tsx 54-96).                          *)
(***************************************************************************)
THEOREM CurrentPanel == BrowserSpec => []PanelIsCurrent
<1>1. ASSUME PageInv, Rested PROVE AnswerFitsQuestion /\ LiveFollowsAnswer
  <2>1. /\ asked = rendered /\ followed = feed /\ rendered = wanted
        /\ ask.shown = ask.queued /\ live.shown = live.queued
    BY <1>1 DEF Rested, EffectsDue
  <2>2. AnswerFitsQuestion
    BY <1>1, <2>1 DEF PageInv, AskFits, AnswerFitsQuestion
  <2>3. live.shown.snapshot \in {0, TokenOf(ask.shown)}
    BY <1>1, <2>1 DEF PageInv, LiveFits
  <2>4. Drawn # AskIdle => live.shown.snapshot \in {0, Drawn.token}
    BY <2>3 DEF Drawn, TokenOf
  <2>5. \A s \in DOMAIN sources : ~sources[s].done => s = Len(sources) /\ sources[s].token = TokenOf(ask.shown)
    BY <1>1, <2>1 DEF PageInv, LiveFits
  <2>. QED  BY <2>2, <2>4, <2>5 DEF LiveFollowsAnswer
<1>2. BrowserInv => PanelIsCurrent
  <2>1. ~Rested => AnswerFitsQuestion /\ LiveFollowsAnswer
    BY DEF AnswerFitsQuestion, LiveFollowsAnswer
  <2>. QED  BY <1>1, <2>1 DEF BrowserInv, PanelIsCurrent
<1>. QED  BY <1>2, BrowserInvariance, PTL
=============================================================================
