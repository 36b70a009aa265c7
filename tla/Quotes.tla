------------------------------- MODULE Quotes -------------------------------
(***************************************************************************)
(* The live quotes of internal/quote: a feed that reads the frames of an   *)
(* exchange into the hub and connects again whenever the connection ends,  *)
(* and the handler of a browser that pushes what changed in the hub.       *)
(*                                                                         *)
(* Abstractions: one symbol, whose quotes are numbered; a frame is a quote *)
(* or 0, which stands for every frame that is skipped; time is left out.   *)
(***************************************************************************)
EXTENDS Naturals, Sequences

CONSTANTS
  MaxQuotes,  \* bound: quotes of the exchange
  MaxWire,    \* bound: frames under way
  MaxBackoff  \* limit of the backoff, in seconds

ASSUME QuotesAssumption ==
  MaxQuotes \in Nat \ {0} /\ MaxWire \in Nat /\ MaxBackoff \in Nat \ {0}

VARIABLES
  quote,    \* the quote of the exchange now
  wire,     \* frames sent and not yet read
  feed,     \* the goroutine of the feed
  backoff,  \* what it waits before it connects again
  hub,      \* Hub.prices, 0 for none
  client,   \* the handler of the browser
  snapshot, \* the hub it has read and pushes
  pushed,   \* last: what it pushed before
  display   \* the quote the browser shows

qvars == <<quote, wire, feed, backoff, hub, client, snapshot, pushed, display>>

QuoteNumbers == 0..MaxQuotes

QuotesTypeOK ==
  /\ quote \in 1..MaxQuotes /\ wire \in Seq(QuoteNumbers)
  /\ feed \in {"off", "dial", "read", "wait"} /\ backoff \in 1..MaxBackoff
  /\ hub \in QuoteNumbers /\ client \in {"off", "tick", "push"}
  /\ snapshot \in QuoteNumbers /\ pushed \in QuoteNumbers /\ display \in QuoteNumbers

QuotesInit ==
  /\ quote = 1 /\ wire = <<>> /\ feed = "off" /\ backoff = 1
  /\ hub = 0 /\ client = "off" /\ snapshot = 0 /\ pushed = 0 /\ display = 0

-----------------------------------------------------------------------------
(* The exchange. *)

QuoteMoves ==
  /\ quote < MaxQuotes /\ quote' = quote + 1
  /\ UNCHANGED <<wire, feed, backoff, hub, client, snapshot, pushed, display>>

\* The exchange sends its quote again and again to whoever is connected.
SendFrame ==
  /\ feed = "read" /\ Len(wire) < MaxWire /\ wire' = Append(wire, quote)
  /\ UNCHANGED <<quote, feed, backoff, hub, client, snapshot, pushed, display>>

\* It also sends confirmations, pings and frames that cannot be parsed.
SendOther ==
  /\ feed = "read" /\ Len(wire) < MaxWire /\ wire' = Append(wire, 0)
  /\ UNCHANGED <<quote, feed, backoff, hub, client, snapshot, pushed, display>>

-----------------------------------------------------------------------------
(* The feed: retryLoop and connectOnce. *)

StartFeed ==
  /\ feed = "off" /\ feed' = "dial" /\ backoff' = 1
  /\ UNCHANGED <<quote, wire, hub, client, snapshot, pushed, display>>

\* wsDial succeeds, and the subscription of OKX.
Dial ==
  /\ feed = "dial" /\ feed' = "read"
  /\ UNCHANGED <<quote, wire, backoff, hub, client, snapshot, pushed, display>>

\* The dial fails or takes too long, or the subscription is not sent.
DialFails ==
  /\ feed = "dial" /\ feed' = "wait"
  /\ UNCHANGED <<quote, wire, backoff, hub, client, snapshot, pushed, display>>

\* A frame is read; only a quote that can be parsed updates the hub.
ReadFrame ==
  /\ feed = "read" /\ wire # <<>> /\ wire' = Tail(wire)
  /\ hub' = IF Head(wire) = 0 THEN hub ELSE Head(wire)
  /\ UNCHANGED <<quote, feed, backoff, client, snapshot, pushed, display>>

\* Reading fails, for a lost connection, a silent one, or one the exchange closed: connectOnce
\* always returns an error.
Disconnect ==
  /\ feed = "read" /\ feed' = "wait" /\ wire' = <<>>
  /\ UNCHANGED <<quote, backoff, hub, client, snapshot, pushed, display>>

\* The backoff is over; the next one is twice as long.
Reconnect ==
  /\ feed = "wait" /\ feed' = "dial"
  /\ backoff' = IF 2 * backoff > MaxBackoff THEN MaxBackoff ELSE 2 * backoff
  /\ UNCHANGED <<quote, wire, hub, client, snapshot, pushed, display>>

\* The process ends: the hub is lost, and every browser is disconnected.
StopFeed ==
  /\ feed # "off" /\ feed' = "off" /\ wire' = <<>> /\ hub' = 0 /\ client' = "off"
  /\ UNCHANGED <<quote, backoff, snapshot, pushed, display>>

-----------------------------------------------------------------------------
(* The handler of one browser. *)

\* The browser connects: the handler starts from an empty memory and reads the hub.
ConnectBrowser ==
  /\ feed # "off" /\ client = "off"
  /\ snapshot' = hub /\ pushed' = 0 /\ client' = IF hub = 0 THEN "tick" ELSE "push"
  /\ UNCHANGED <<quote, wire, feed, backoff, hub, display>>

\* A tick: what has changed since the last push is pushed.
Tick ==
  /\ client = "tick" /\ snapshot' = hub
  /\ client' = IF hub = pushed THEN "tick" ELSE "push"
  /\ UNCHANGED <<quote, wire, feed, backoff, hub, pushed, display>>

\* Bug: the hub is taken for what was pushed.
PushHub ==
  /\ client = "push" /\ display' = snapshot /\ pushed' = hub /\ client' = "tick"
  /\ UNCHANGED <<quote, wire, feed, backoff, hub, snapshot>>

Push ==
  /\ client = "push" /\ display' = snapshot /\ pushed' = snapshot /\ client' = "tick"
  /\ UNCHANGED <<quote, wire, feed, backoff, hub, snapshot>>

\* The browser is gone, noticed by the handler or by a write that fails.
Disconnected ==
  /\ client # "off" /\ client' = "off"
  /\ UNCHANGED <<quote, wire, feed, backoff, hub, snapshot, pushed, display>>

QuotesNext ==
  \/ QuoteMoves \/ SendFrame \/ SendOther
  \/ StartFeed \/ Dial \/ DialFails \/ ReadFrame \/ Disconnect \/ Reconnect \/ StopFeed
  \/ ConnectBrowser \/ Tick \/ Push \/ Disconnected

QuotesSpec == QuotesInit /\ [][QuotesNext]_qvars

\* The goroutines are scheduled, and a browser connects again by itself.
QuotesProgress ==
  /\ WF_qvars(Reconnect) /\ WF_qvars(ReadFrame)
  /\ WF_qvars(Tick) /\ WF_qvars(ConnectBrowser)

-----------------------------------------------------------------------------
(* Properties. *)

(* Once the program stays up the browser shows the quote of the exchange in  *)
(* the end, though connections on both sides break at any point, among them  *)
(* between reading the hub and pushing it.                                   *)
QuotesConverge == <>[](feed # "off") => <>[](display = quote)
=============================================================================
