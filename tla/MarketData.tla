----------------------------- MODULE MarketData ------------------------------
(***************************************************************************)
(* Where prices come from and how pages see them: the client of the        *)
(* exchange's websocket, the candles of the charts, and the symbols and    *)
(* hours of the markets.  The three share no state.                        *)
(***************************************************************************)
EXTENDS Integers, Sequences, FiniteSets, SequencesExt

(***************************************************************************)
(* ChartService with its ChartDataCache (src/api/chart_service.py) on one  *)
(* event loop.  A request for candles suspends while the price service     *)
(* answers; a broadcast of a new candle suspends in each send; the handler *)
(* of a websocket is in the list of its symbol from before it accepts the  *)
(* connection until it ends.  The price service is external: it answers    *)
(* with the candles there are when it is asked.  One symbol; a key is the  *)
(* timeframe and limit of a request.                                       *)
(***************************************************************************)
CONSTANTS ChartKeys, Askers, Casters, Viewers,
          Ttl,
          MaxNow, MaxCandles  \* bounds

ASSUME ChartAssumption ==
  /\ ChartKeys # {} /\ Ttl \in Nat /\ MaxNow \in Nat /\ MaxCandles \in Nat \ {0}

VARIABLES minute,
          candles,   \* the candles there are: their number
          cached,    \* key -> what the cache has for it
          asking,    \* request -> where it is
          casting,   \* broadcast -> where it is
          viewers,   \* websocket -> where its handler is, and whether it can be sent to
          active,    \* active_connections of the symbol
          shownTo    \* history: request -> what it answered from the cache; and what it had to know

chartVars == <<minute, candles, cached, asking, casting, viewers, active, shownTo>>

NoEntry == [candles |-> 0, at |-> 0, early |-> TRUE]
AtEase == [pc |-> "idle", key |-> CHOOSE k \in ChartKeys : TRUE, sees |-> 0, early |-> FALSE]
NoCast == [pc |-> "idle", at |-> 0, broken |-> {}, candle |-> 0]

ChartTypeOK ==
  /\ minute \in 0 .. MaxNow /\ candles \in 1 .. MaxCandles
  /\ cached \in [ChartKeys -> [candles : 0 .. MaxCandles, at : 0 .. MaxNow, early : BOOLEAN]]
  /\ asking \in [Askers -> [pc : {"idle", "fetching"}, key : ChartKeys, sees : 0 .. MaxCandles, early : BOOLEAN]]
  /\ casting \in [Casters -> [pc : {"idle", "sending"}, at : Nat, broken : SUBSET Viewers, candle : 0 .. MaxCandles]]
  /\ viewers \in [Viewers -> [pc : {"new", "joining", "open", "ended"}, works : BOOLEAN]]
  /\ ToSet(active) \subseteq Viewers /\ IsInjective(active)
  /\ shownTo \in 0 .. MaxCandles

ChartInit ==
  /\ minute = 0 /\ candles = 1 /\ shownTo = 0
  /\ cached = [k \in ChartKeys |-> NoEntry]
  /\ asking = [r \in Askers |-> AtEase] /\ casting = [b \in Casters |-> NoCast]
  /\ viewers = [v \in Viewers |-> [pc |-> "new", works |-> TRUE]] /\ active = <<>>

-----------------------------------------------------------------------------
\* ChartDataCache.get: an expired entry is dropped.
Fresh(e) == e # NoEntry /\ minute - e.at <= Ttl

\* get_chart_data: an entry of the cache answers at once, otherwise the price service is asked ...
Ask(r, k) ==
  /\ asking[r].pc = "idle"
  /\ ~Fresh(cached[k])
  /\ asking' = [asking EXCEPT ![r] = [pc |-> "fetching", key |-> k, sees |-> candles, early |-> FALSE]]
  /\ cached' = [cached EXCEPT ![k] = NoEntry]
  /\ UNCHANGED <<minute, candles, casting, viewers, active, shownTo>>

\* ... and what it answers, or nothing after an error, is kept.
Fetched(r) ==
  /\ asking[r].pc = "fetching"
  /\ \/ cached' = [cached EXCEPT ![asking[r].key] = [candles |-> asking[r].sees, at |-> minute, early |-> asking[r].early]]
     \/ UNCHANGED cached
  /\ asking' = [asking EXCEPT ![r] = AtEase]
  /\ UNCHANGED <<minute, candles, casting, viewers, active, shownTo>>

\* A candle closes, and is broadcast at once or later.
NewCandle ==
  /\ candles < MaxCandles /\ candles' = candles + 1
  /\ UNCHANGED <<minute, cached, asking, casting, viewers, active, shownTo>>

\* The symbol is known once a websocket has asked for it, whether or not its list is empty again.
BroadcastBegins(b) ==
  /\ casting[b].pc = "idle" /\ (\E v \in Viewers : viewers[v].pc # "new") /\ shownTo < candles
  /\ casting' = [casting EXCEPT ![b] = [pc |-> "sending", at |-> 1, broken |-> {}, candle |-> candles]]
  /\ UNCHANGED <<minute, candles, cached, asking, viewers, active, shownTo>>

\* The loop iterates over the list itself, which changes meanwhile.
Send(b) ==
  LET t == casting[b] v == active[t.at] IN
  /\ t.pc = "sending" /\ t.at <= Len(active)
  /\ casting' = [casting EXCEPT ![b].at = @ + 1,
                   ![b].broken = IF viewers[v].pc = "open" /\ viewers[v].works THEN @ ELSE @ \cup {v}]
  /\ UNCHANGED <<minute, candles, cached, asking, viewers, active, shownTo>>

InvalidateOne ==                                                           \* mutant
  [cached EXCEPT ![CHOOSE k \in ChartKeys : TRUE] = NoEntry]
\* invalidate_prefix: every timeframe and limit of the symbol.
InvalidateSymbol == [k \in ChartKeys |-> NoEntry]

\* The list with these removed, the others in their order.
ViewersBut(S) ==
  LET kept == {i \in DOMAIN active : active[i] \notin S} IN
  [n \in 1 .. Cardinality(kept) |-> active[CHOOSE i \in kept : Cardinality({j \in kept : j < i}) = n - 1]]

\* The broken ones are removed, and the cache is invalidated: but removing one that its own handler has
\* removed in the meantime raises, and ends the broadcast there.
BroadcastEnds(b) ==
  LET t == casting[b] IN
  /\ t.pc = "sending" /\ t.at > Len(active)
  /\ casting' = [casting EXCEPT ![b] = NoCast]
  /\ IF t.broken \subseteq ToSet(active)
     THEN /\ active' = ViewersBut(t.broken)
          /\ cached' = InvalidateSymbol
          /\ shownTo' = IF t.candle > shownTo THEN t.candle ELSE shownTo
          /\ asking' = [r \in Askers |-> [asking[r] EXCEPT !.early = @ \/ asking[r].pc = "fetching"]]
     ELSE /\ \E S \in SUBSET (t.broken \cap ToSet(active)) : active' = ViewersBut(S)
          /\ UNCHANGED <<cached, shownTo, asking>>
  /\ UNCHANGED <<minute, candles, viewers>>

-----------------------------------------------------------------------------
\* subscribe_to_updates: registered first, accepted then.
Subscribe(v) ==
  /\ viewers[v].pc = "new" /\ viewers' = [viewers EXCEPT ![v].pc = "joining"]
  /\ active' = Append(active, v)
  /\ UNCHANGED <<minute, candles, cached, asking, casting, shownTo>>
Accepted(v) ==
  /\ viewers[v].pc = "joining" /\ viewers' = [viewers EXCEPT ![v].pc = "open"]
  /\ UNCHANGED <<minute, candles, cached, asking, casting, active, shownTo>>

\* The client goes away: sends fail from minute on, and in the end the handler notices.
Vanishes(v) ==
  /\ viewers[v].pc = "open" /\ viewers[v].works /\ viewers' = [viewers EXCEPT ![v].works = FALSE]
  /\ UNCHANGED <<minute, candles, cached, asking, casting, active, shownTo>>

WithoutViewerIfHealthy(v) ==                                                     \* mutant
  IF viewers[v].works THEN ViewersBut({v}) ELSE active
WithoutViewer(v) == ViewersBut({v})

\* Its finally clause removes it, if it is still there.
HandlerEnds(v) ==
  /\ viewers[v].pc \in {"joining", "open"} /\ (viewers[v].pc = "joining" \/ ~viewers[v].works)
  /\ viewers' = [viewers EXCEPT ![v] = [pc |-> "ended", works |-> FALSE]]
  /\ active' = WithoutViewer(v)
  /\ UNCHANGED <<minute, candles, cached, asking, casting, shownTo>>

Later ==
  /\ minute < MaxNow /\ minute' = minute + 1
  /\ UNCHANGED <<candles, cached, asking, casting, viewers, active, shownTo>>

ChartNext ==
  \/ \E r \in Askers : Fetched(r) \/ \E k \in ChartKeys : Ask(r, k)
  \/ \E b \in Casters : BroadcastBegins(b) \/ Send(b) \/ BroadcastEnds(b)
  \/ \E v \in Viewers : Subscribe(v) \/ Accepted(v) \/ Vanishes(v) \/ HandlerEnds(v)
  \/ NewCandle \/ Later

ChartSpec == ChartInit /\ [][ChartNext]_chartVars

-----------------------------------------------------------------------------
\* After a broadcast that ran to its end no answer from the cache, of any timeframe and limit, lacks the
\* broadcast candle, unless its request was on its way when the broadcast ended.
StaleOnlyInFlight ==
  \A k \in ChartKeys : Fresh(cached[k]) /\ ~cached[k].early => cached[k].candles >= shownTo

\* A websocket whose handler has ended is in no list, whichever of the two removed it.
EndedIsGone == \A v \in ToSet(active) : viewers[v].pc # "ended"

ChartSound == StaleOnlyInFlight /\ EndedIsGone

(* Fail, and documented: *)
\* No answer of the cache lacks a broadcast candle: a request on its way puts the old candles back.
NeverStale == \A k \in ChartKeys : Fresh(cached[k]) => cached[k].candles >= shownTo
\* An open websocket is in the list: a broadcast before it is accepted removes it for good.
OpenIsListed == \A v \in Viewers : viewers[v].pc = "open" /\ viewers[v].works => v \in ToSet(active)
\* A broadcast that meets a broken websocket still invalidates the cache: not if its handler was faster.
BroadcastInvalidates ==
  [][\A b \in Casters : casting[b].pc = "sending" /\ casting'[b].pc = "idle" =>
       \A k \in ChartKeys : cached'[k] = NoEntry]_chartVars

-----------------------------------------------------------------------------
(***************************************************************************)
(* How the routes name symbols (src/api/services/market_data_service.py),  *)
(* how the fetcher and the chart service tell their market (idx_fetcher.py *)
(* and chart_service.py), and when that market is open.  A symbol is a     *)
(* form with its two parts, coins and currencies, each of a length; the    *)
(* six-letter test looks at the length of both together (coins have three  *)
(* letters or more).  The clock is the hour of the week, Monday 0 h UTC    *)
(* being 0.                                                                *)
(***************************************************************************)

CONSTANTS Currencies,  \* parts of three letters that are money
          Coins        \* part -> its length

VARIABLES hour, symbol

symbolVars == <<hour, symbol>>

-----------------------------------------------------------------------------
\* "XXXYYY=X", "XXX/YYY", "XXXYYY", "XXX-USD", "XXXUSDT", "XXX", and what normalising may leave: "XXX/-USD".
Sym(f, a, b) == [form |-> f, base |-> a, quote |-> b]
Parts == Currencies \cup DOMAIN Coins
Length(p) == IF p \in DOMAIN Coins THEN Coins[p] ELSE 3
SixLetters(s) == Length(s.base) + Length(s.quote) = 6

SymbolsAsked ==
  {Sym(f, a, b) : f \in {"=X", "/", "joined"}, a \in Parts, b \in Currencies}
    \cup {Sym(f, a, "USD") : f \in {"-USD", "USDT"}, a \in Parts}

\* detect_market_from_symbol
Detected(s) ==
  IF s.form \in {"=X", "/"} \/ (s.form = "joined" /\ SixLetters(s))
  THEN "forex" ELSE IF s.form \in {"-USD", "USDT"} THEN "crypto" ELSE "unknown"

\* is_forex_symbol and is_crypto_symbol of the routes.
IsForex(s) == s.form \in {"=X", "/", "joined"} /\ SixLetters(s)
IsCrypto(s) == s.form \in {"-USD", "USDT"} /\ Length(s.base) >= 2

\* MarketSymbolValidator: XXX/USD and XXX/USDT are crypto unless both have three letters.
ChartMarket(s) ==
  IF IsForex(s) THEN "forex"
  ELSE IF s.form \in {"-USD", "USDT"} \/ (s.form = "/" /\ s.quote = "USD") THEN "crypto" ELSE "none"

\* _resolve_market_type of the fetcher, without a market.
FetcherMarket(s) == IF s.form \in {"-USD", "USDT"} THEN "crypto" ELSE "forex"

\* normalize_symbol_input: forex symbols become XXXYYY=X, crypto symbols XXX-USD; a slash survives the latter.
NormalizedDroppingUsd(s, m) ==                                             \* mutant
  IF m = "forex" THEN IF s.form \in {"/", "joined"} /\ SixLetters(s) THEN Sym("=X", s.base, "USD") ELSE s
  ELSE s
Normalized(s, m) ==
  IF m = "forex"
  THEN IF s.form \in {"/", "joined"} /\ SixLetters(s) THEN Sym("=X", s.base, s.quote)
       ELSE IF s.form = "/" THEN Sym("joined", s.base, s.quote) ELSE s
  ELSE IF m # "crypto" THEN s
  ELSE IF s.form = "USDT" THEN Sym("-USD", s.base, "USD")
  ELSE IF s.form = "joined" /\ s.quote = "USD" THEN Sym("-USD", s.base, "USD")
  ELSE IF s.form = "-USD" THEN s
  ELSE Sym("broken", s.base, s.quote)

\* symbol_aliases and symbols_match.
AliasesOf(s) ==
  {s} \cup
  (IF s.form = "=X" THEN {Sym("joined", s.base, s.quote)} \cup (IF SixLetters(s) THEN {Sym("/", s.base, s.quote)} ELSE {})
   ELSE IF s.form = "joined" /\ SixLetters(s) THEN {Sym("=X", s.base, s.quote), Sym("/", s.base, s.quote)}
   ELSE IF s.form = "-USD" THEN {Sym("coin", s.base, "USD"), Sym("USDT", s.base, "USD")}
   ELSE IF s.form = "USDT" THEN {Sym("coin", s.base, "USD"), Sym("-USD", s.base, "USD")}
   ELSE {})
SymbolsMatch(s, t) == AliasesOf(s) \cap AliasesOf(t) # {}

-----------------------------------------------------------------------------
Weekday(h) == (h \div 24) % 7
HourOfDay(h) == h % 24

\* _is_forex_open
ForexOpen(h) ==
  \/ Weekday(h) <= 3
  \/ Weekday(h) = 4 /\ HourOfDay(h) < 22
  \/ Weekday(h) = 6 /\ HourOfDay(h) >= 22

NextOpenMonday(h) ==                                                        \* mutant
  (h - HourOfDay(h)) + ((7 - Weekday(h)) % 7) * 24 + 22
\* _get_next_forex_open: the coming Sunday at 22 h, today if it is Sunday.
NextOpen(h) ==
  (h - HourOfDay(h)) + (IF Weekday(h) = 6 /\ HourOfDay(h) < 22 THEN 0 ELSE (6 - Weekday(h)) % 7) * 24 + 22

\* is_trading_hours of the chart service: by the weekday in Jakarta, seven hours ahead.
ChartOpen(h) == Weekday(h + 7) <= 4

\* get_next_trading_time: the next Jakarta midnight, and the day after while that is a weekend.
ChartNextOpen(h) ==
  LET midnight(d) == ((h + 7) \div 24 + d) * 24 - 7
      d == CHOOSE n \in 1 .. 3 : ChartOpen(midnight(n)) /\ \A i \in 1 .. n - 1 : ~ChartOpen(midnight(i)) IN
  IF ChartOpen(h) THEN h ELSE midnight(d)

-----------------------------------------------------------------------------
SymbolInit == hour = 0 /\ symbol \in SymbolsAsked
HourPasses == hour < 167 /\ hour' = hour + 1 /\ UNCHANGED symbol
SymbolNext == HourPasses
SymbolSpec == SymbolInit /\ [][SymbolNext]_symbolVars

SymbolTypeOK == hour \in 0 .. 167 /\ symbol \in SymbolsAsked

\* Normalising a supported symbol twice changes nothing, and what comes out still matches what was asked.
NormalizedIsTheSame ==
  \A m \in {"forex", "crypto"} :
    (IF m = "forex" THEN IsForex(symbol) ELSE IsCrypto(symbol)) =>
      LET n == Normalized(symbol, m) IN
      Normalized(n, m) = n /\ SymbolsMatch(symbol, n)

\* When the forex market is closed, the next opening told is the first open hour to come, in both services.
NextOpenIsFirst ==
  /\ ~ForexOpen(hour) => /\ NextOpen(hour) > hour /\ ForexOpen(NextOpen(hour))
                         /\ \A h \in hour .. NextOpen(hour) - 1 : ~ForexOpen(h)
  /\ ~ChartOpen(hour) => /\ ChartNextOpen(hour) > hour /\ ChartOpen(ChartNextOpen(hour))
                         /\ \A h \in hour .. ChartNextOpen(hour) - 1 : ~ChartOpen(h)

SymbolsSound == NormalizedIsTheSame /\ NextOpenIsFirst

(* Fail, and documented: *)
\* Fetcher and chart service call the market open at the same hours, and tell the same market.
OneClock == ForexOpen(hour) <=> ChartOpen(hour)
OneMarket == ChartMarket(symbol) # "none" => ChartMarket(symbol) = FetcherMarket(symbol)
\* A coin written like a currency pair is detected as crypto: "BTCUSD" and "BTC/USD" are forex.
CoinsAreCrypto == symbol.base \in DOMAIN Coins /\ symbol.quote = "USD" => Detected(symbol) = "crypto"

-----------------------------------------------------------------------------
(***************************************************************************)
(* BEIWebSocketClient and MarketDataCache (src/data/idx_api_client.py).    *)
(* Requests, their answers and the streamed ticks share one websocket: a   *)
(* call sends and then takes the next message, whatever it is.  One        *)
(* coroutine at a time may wait for a message of a websocket, a second is  *)
(* refused by the library.  Calls are coroutines on one event loop; a new  *)
(* connect replaces the websocket and leaves the old one to those who wait *)
(* on it.  The exchange answers the requests of a websocket in their order *)
(* or not at all, and may close it.  Ticks are given to a callback that    *)
(* puts them into the cache.                                               *)
(***************************************************************************)
CONSTANTS Calls, Symbols,
          MaxSockets, MaxRequests, MaxTicks,  \* bounds
          MaxTraffic,                         \* bound: requests and ticks together
          CacheSize                           \* max_size

\* No coroutine is nobody, and the cache has room for a tick.
ASSUME IdxAssumption ==
  /\ "nobody" \notin Calls /\ CacheSize \in Nat \ {0}
  /\ MaxSockets \in Nat /\ MaxRequests \in Nat /\ MaxTicks \in Nat

VARIABLES socket,     \* the number of self.websocket, 0 for none
          connected,
          sockets,    \* websocket -> alive, what it was asked, what it has to deliver, who waits, who is subscribed
          calls,      \* coroutine -> where it is
          cache,      \* symbol -> its ticks and its latest price
          requests,   \* the requests sent so far
          ticked,     \* the ticks there were
          spoilt      \* history: the websockets on which somebody did not wait for his answer, or took another's

idxVars == <<socket, connected, sockets, calls, cache, requests, ticked, spoilt>>

Kinds == {"ohlcv", "orderbook"}
NewSocket == [alive |-> TRUE, asked |-> <<>>, wire |-> <<>>, waiter |-> "nobody", subscribed |-> {}]
AtHome == [pc |-> "idle", on |-> 0, kind |-> "none", symbol |-> "none", id |-> 0, answer |-> 0]

IdxTypeOK ==
  /\ socket \in 0 .. MaxSockets /\ connected \in BOOLEAN /\ Len(sockets) <= MaxSockets
  /\ \A s \in DOMAIN sockets : sockets[s].waiter \in Calls \cup {"nobody"} /\ sockets[s].subscribed \subseteq Symbols
  /\ calls \in [Calls -> [pc : {"idle", "login", "auth", "rpc", "stream", "returned"}, on : 0 .. MaxSockets,
                          kind : Kinds \cup {"none", "auth"}, symbol : Symbols \cup {"none"},
                          id : 0 .. MaxRequests, answer : 0 .. MaxRequests]]
  /\ \A y \in Symbols : Len(cache[y].ticks) <= CacheSize
  /\ requests \in 0 .. MaxRequests /\ ticked \in 0 .. MaxTicks

IdxInit ==
  /\ socket = 0 /\ connected = FALSE /\ sockets = <<>>
  /\ calls = [c \in Calls |-> AtHome]
  /\ cache = [y \in Symbols |-> [ticks |-> <<>>, latest |-> 0]]
  /\ requests = 0 /\ ticked = 0 /\ spoilt = {}

-----------------------------------------------------------------------------
Request(i, k, y) == [id |-> i, kind |-> k, symbol |-> y]

\* recv: refused while another coroutine waits, and on a closed websocket.
Listens(s, c) == sockets[s].alive /\ sockets[s].waiter = "nobody"

\* connect: a new websocket, and an auth message on it ...
ConnectBegins(c) ==
  /\ calls[c].pc = "idle" /\ Len(sockets) < MaxSockets
  /\ sockets' = Append(sockets, [NewSocket EXCEPT !.asked = <<Request(0, "auth", "none")>>])
  /\ socket' = Len(sockets) + 1
  /\ calls' = [calls EXCEPT ![c] = [AtHome EXCEPT !.pc = "login", !.on = socket', !.kind = "auth"]]
  /\ UNCHANGED <<connected, cache, requests, ticked, spoilt>>

\* ... and, when that is sent, the next message of what is now self.websocket.
ConnectWaits(c) ==
  /\ calls[c].pc = "login"
  /\ IF Listens(socket, c)
     THEN /\ sockets' = [sockets EXCEPT ![socket].waiter = c]
          /\ calls' = [calls EXCEPT ![c].pc = "auth", ![c].on = socket]
     ELSE calls' = [calls EXCEPT ![c] = AtHome] /\ UNCHANGED sockets
  /\ UNCHANGED <<socket, connected, cache, requests, ticked, spoilt>>

\* get_ohlcv and get_order_book: they do not ask whether the client is connected.
Call(c, k, y) ==
  /\ calls[c].pc = "idle" /\ socket # 0 /\ requests < MaxRequests /\ requests + ticked < MaxTraffic
  /\ sockets[socket].alive
  /\ requests' = requests + 1
  /\ LET asked == Append(sockets[socket].asked, Request(requests + 1, k, y)) IN
     IF Listens(socket, c)
     THEN /\ sockets' = [sockets EXCEPT ![socket].asked = asked, ![socket].waiter = c]
          /\ calls' = [calls EXCEPT ![c] = [pc |-> "rpc", on |-> socket, kind |-> k, symbol |-> y,
                                            id |-> requests + 1, answer |-> 0]]
          /\ UNCHANGED spoilt
     ELSE /\ sockets' = [sockets EXCEPT ![socket].asked = asked]
          /\ spoilt' = spoilt \cup {socket} /\ UNCHANGED calls
  /\ UNCHANGED <<socket, connected, cache, ticked>>

\* subscribe for each symbol, then the loop of stream_ticks.
StreamTicks(c, ys) ==
  /\ calls[c].pc = "idle" /\ connected
  /\ IF Listens(socket, c)
     THEN /\ sockets' = [sockets EXCEPT ![socket].waiter = c, ![socket].subscribed = @ \cup ys]
          /\ calls' = [calls EXCEPT ![c] = [AtHome EXCEPT !.pc = "stream", !.on = socket]]
          /\ UNCHANGED connected
     ELSE /\ connected' = FALSE /\ UNCHANGED <<sockets, calls>>
  /\ UNCHANGED <<socket, cache, requests, ticked, spoilt>>

-----------------------------------------------------------------------------
KeepsOldest(q) == SubSeq(q, 1, CacheSize)                                  \* mutant
KeepsNewest(q) == SubSeq(q, Len(q) - CacheSize + 1, Len(q))

\* add_tick
AddTick(m) ==
  LET q == Append(cache[m.symbol].ticks, m.id) IN
  cache' = [cache EXCEPT ![m.symbol] = [ticks |-> IF Len(q) > CacheSize THEN KeepsNewest(q) ELSE q,
                                        latest |-> m.id]]

ClearCache ==
  /\ cache' = [y \in Symbols |-> [ticks |-> <<>>, latest |-> 0]]
  /\ UNCHANGED <<socket, connected, sockets, calls, requests, ticked, spoilt>>

AcceptsAny(m, t) == TRUE                                                   \* mutant
\* A candle's caller looks for candles in the answer, a book's for the book.
Accepts(m, t) == m.kind = t.kind

\* A message reaches the coroutine that waits.  connect accepts any message that reports success, a call
\* keeps an answer of its kind and returns nothing for any other, a stream passes ticks on.
Receive(c) ==
  LET s == calls[c].on m == Head(sockets[s].wire) t == calls[c] IN
  /\ t.pc \in {"auth", "rpc", "stream"} /\ sockets[s].wire # <<>> /\ sockets[s].alive
  /\ sockets[s].waiter = c
  /\ sockets' = [sockets EXCEPT ![s].wire = Tail(@), ![s].waiter = "nobody"]
  /\ \/ /\ t.pc = "auth" /\ calls' = [calls EXCEPT ![c] = AtHome]
        /\ connected' = (connected \/ m.kind # "tick") /\ UNCHANGED cache
     \/ /\ t.pc = "rpc"
        /\ calls' = [calls EXCEPT ![c] = IF Accepts(m, t) THEN [t EXCEPT !.pc = "returned", !.answer = m.id] ELSE AtHome]
        /\ UNCHANGED <<connected, cache>>
     \/ /\ t.pc = "stream" /\ UNCHANGED <<connected, calls>>
        /\ IF m.kind = "tick" THEN AddTick(m) ELSE UNCHANGED cache
  /\ spoilt' = IF IF m.kind = "tick" THEN t.pc = "rpc" ELSE t.pc = "stream" \/ m.id # t.id
               THEN spoilt \cup {s} ELSE spoilt
  /\ UNCHANGED <<socket, requests, ticked>>

\* The stream's loop asks for the next message of what is now self.websocket, while the client is connected.
StreamGoesOn(c) ==
  /\ calls[c].pc = "stream" /\ sockets[calls[c].on].waiter # c
  /\ IF ~connected
     THEN calls' = [calls EXCEPT ![c] = AtHome] /\ UNCHANGED <<connected, sockets>>
     ELSE IF Listens(socket, c)
     THEN /\ sockets' = [sockets EXCEPT ![socket].waiter = c]
          /\ calls' = [calls EXCEPT ![c].on = socket] /\ UNCHANGED connected
     ELSE connected' = FALSE /\ calls' = [calls EXCEPT ![c] = AtHome] /\ UNCHANGED sockets
  /\ UNCHANGED <<socket, cache, requests, ticked, spoilt>>

\* wait_for runs out: a call returns nothing, a stream sends a ping and goes on.
TimesOut(c) ==
  LET s == calls[c].on IN
  /\ calls[c].pc \in {"auth", "rpc", "stream"} /\ sockets[s].waiter = c
  /\ sockets[s].alive /\ sockets[s].wire = <<>>
  /\ sockets' = [sockets EXCEPT ![s].waiter = "nobody"]
  /\ calls' = IF calls[c].pc = "stream" THEN calls ELSE [calls EXCEPT ![c] = AtHome]
  /\ spoilt' = IF calls[c].pc = "stream" THEN spoilt ELSE spoilt \cup {s}
  /\ UNCHANGED <<socket, connected, cache, requests, ticked>>

\* The websocket one waits on is closed: a stream takes the whole client for disconnected.
Broken(c) ==
  LET s == calls[c].on IN
  /\ calls[c].pc \in {"auth", "rpc", "stream"} /\ sockets[s].waiter = c /\ ~sockets[s].alive
  /\ sockets' = [sockets EXCEPT ![s].waiter = "nobody"]
  /\ calls' = [calls EXCEPT ![c] = AtHome]
  /\ connected' = (connected /\ calls[c].pc # "stream")
  /\ UNCHANGED <<socket, cache, requests, ticked, spoilt>>

CallerTakes(c) ==
  /\ calls[c].pc = "returned" /\ calls' = [calls EXCEPT ![c] = AtHome]
  /\ UNCHANGED <<socket, connected, sockets, cache, requests, ticked, spoilt>>

\* What was on its way is lost.
Closed(s) ==
  [sockets EXCEPT ![s] = [NewSocket EXCEPT !.alive = FALSE, !.waiter = sockets[s].waiter]]

\* disconnect keeps the closed websocket and the subscriptions.
ClientDisconnects ==
  /\ socket # 0 /\ sockets' = Closed(socket) /\ connected' = FALSE
  /\ UNCHANGED <<socket, calls, cache, requests, ticked, spoilt>>

\* The exchange.
Exchange ==
  \E s \in DOMAIN sockets :
    /\ sockets[s].alive
    /\ \/ /\ sockets[s].asked # <<>> /\ UNCHANGED ticked
          /\ sockets' = [sockets EXCEPT ![s].asked = Tail(@), ![s].wire = Append(@, Head(sockets[s].asked))]
       \/ /\ \E y \in sockets[s].subscribed :
               sockets' = [sockets EXCEPT ![s].wire = Append(@, Request(ticked + 1, "tick", y))]
          /\ ticked < MaxTicks /\ requests + ticked < MaxTraffic /\ ticked' = ticked + 1
       \/ sockets' = Closed(s) /\ UNCHANGED ticked
    /\ UNCHANGED <<socket, connected, calls, cache, requests, spoilt>>

IdxNext ==
  \/ \E c \in Calls : ConnectBegins(c) \/ ConnectWaits(c) \/ Receive(c) \/ StreamGoesOn(c) \/ TimesOut(c)
                      \/ Broken(c) \/ CallerTakes(c) \/ StreamTicks(c, Symbols)
  \/ \E c \in Calls, k \in Kinds, y \in Symbols : Call(c, k, y)
  \/ ClearCache \/ ClientDisconnects \/ Exchange

IdxSpec == IdxInit /\ [][IdxNext]_idxVars

-----------------------------------------------------------------------------
\* The answer a call takes is the answer to its own request, unless on the same websocket somebody had before
\* stopped waiting for his or taken another's (get_ohlcv puts the requested symbol on what it gets).
AnswersAreOurs ==
  [][\A c \in Calls : calls[c].pc = "rpc" /\ calls'[c].pc = "returned" /\ calls[c].on \notin spoilt =>
       calls'[c].answer = calls[c].id]_idxVars

\* The latest price of a symbol is that of its last tick, however many were dropped.
LatestIsLast ==
  \A y \in Symbols :
    LET q == cache[y].ticks IN cache[y].latest = (IF q = <<>> THEN 0 ELSE q[Len(q)])

(* Fail, and documented: *)
\* An answer is the call's own: after a time-out the late answer is the next call's, symbol and all.
AlwaysOurs == \A c \in Calls : calls[c].pc = "returned" => calls[c].answer = calls[c].id
\* While the client says it is connected its websocket is open, and knows its subscriptions: a closed one
\* shows only at the next message, and nothing subscribes again ("Auto-reconnect").
ConnectedIsOpen == connected => socket # 0 /\ sockets[socket].alive
\* A stream runs only as long as the client is connected to the websocket it waits on: one that waits on a
\* replaced websocket disconnects the new one when the old one closes.
OldStreamsHarmless ==
  [][\A c \in Calls : Broken(c) /\ connected /\ ~connected' => calls[c].on = socket]_idxVars

-----------------------------------------------------------------------------
\* All of it: the client, the charts, the symbols (idx_api_client.py, chart_service.py, market_data_service.py).
MarketSound == AnswersAreOurs /\ [](LatestIsLast /\ ChartSound /\ SymbolsSound)
=============================================================================
