------------------------------- MODULE RestApi -------------------------------
(***************************************************************************)
(* mini-api as a test meets it: the client of the API tier                  *)
(* (src/node/be/api/venues/mini.js) walks GET /trades page by page, through *)
(* the rate limiter, over a store the indexer writes on the same database  *)
(* connection (server.js, lib/http.js).                                    *)
(*                                                                         *)
(* A GET handler runs without an await, so a page is one step; between two  *)
(* pages the indexer may read and open a range, commit or roll it back, or *)
(* rebuild the store, and what it has written inside an open transaction is *)
(* already served.  The chain may be reorganised at any moment, and a       *)
(* transaction mined again in another block: its trades come back under    *)
(* the key they had, (tx_hash, log_index), at another place in the order    *)
(* the pages are served in, (block_number, log_index).  Time passes in      *)
(* ticks; a reply may be lost after the limiter has counted its request.   *)
(* The administrator's pause and rewind are in Indexer.                    *)
(***************************************************************************)
EXTENDS RestRoutes, FiniteSets

CONSTANTS Limit, Window,      \* the limiter: requests per window of ticks
          Reserve,            \* the client naps when no more than this remain
          PageSizes,          \* the page sizes of the walks
          Filters,            \* the market filters of the walks: markets, or All
          All,
          Chains,             \* the chains there may be, as their trades
          MarketOf(_),        \* the market of a trade
          MaxBlock,           \* bound: the highest block
          MaxReorgs,          \* bound: reorganisations of the chain
          MaxLost             \* bound: replies lost in a row

ASSUME RestAssumption ==
  /\ Limit \in Nat /\ Window \in Nat \ {0} /\ Reserve \in Nat /\ Reserve < Limit
  /\ PageSizes \subseteq Nat \ {0} /\ MaxLost \in Nat

\* A trade of a chain: its transaction, block and log index.
Row == [tx : Nat, block : Nat, log : Nat]
Key(r) == [tx |-> r.tx, log |-> r.log]
SamePlace(r, s) == r.block = s.block /\ r.log = s.log

\* On one chain a transaction is in one block, and a log index is used once.
ASSUME ChainsAssumption ==
  /\ MaxBlock \in Nat /\ Chains # {}
  /\ \A chain \in Chains :
       /\ chain \subseteq Row /\ IsFiniteSet(chain)
       /\ \A r \in chain : r.block <= MaxBlock
       /\ \A r, s \in chain : Key(r) = Key(s) \/ SamePlace(r, s) => r = s

VARIABLES
  mined,      \* the chain as it is
  committed,  \* the store: the rows of trades, as other connections see them
  indexed,    \* last_block as committed
  hash,       \* last_block_hash: the chain's, of a block that is gone, or none
  sync,       \* how far the indexer's sync is, and the range it works on
  reorgs,
  bucket,     \* the limiter's bucket of the client's address: count and age
  client,     \* X-RateLimit-Remaining last seen, ticks left of a nap, what it does
  walk,       \* the walk under way, or the last one
  lost        \* replies lost since the client last saw one

store == <<mined, committed, indexed, hash, sync, reorgs>>
vars  == <<store, bucket, client, walk, lost>>

NoSync == [at |-> "idle", rows |-> {}, to |-> -1, tip |-> "none"]
NotSeen == Limit + 1
NoCursor == [block |-> MaxBlock + 1, log |-> 0]

NewWalk(size, filter) ==
  [on |-> TRUE, size |-> size, filter |-> filter, cursor |-> NoCursor,
   got |-> {}, twice |-> {}, kept |-> {}, moved |-> {}, done |-> FALSE]

\* What the connection of the server reads: its own transaction included.
OpenRows == IF sync.at = "open" THEN sync.rows ELSE {}
Visible == committed \cup OpenRows

Init ==
  /\ mined \in Chains /\ committed = {} /\ indexed = -1 /\ hash = "none"
  /\ sync = NoSync /\ reorgs = 0
  /\ bucket = [count |-> 0, age |-> Window]
  /\ client = [remaining |-> NotSeen, nap |-> 0, burst |-> 0, limited |-> FALSE]
  /\ walk = [NewWalk(1, All) EXCEPT !.on = FALSE]
  /\ lost = 0
-----------------------------------------------------------------------------
(* The chain, and the indexer as the rows of trades see it. *)

\* History of a walk: the rows that have been there since it began, and the
\* keys of those, got, served or fetched, that are not where the chain has them.
Keep(visible) == walk' = [walk EXCEPT !.kept = @ \cap visible]
Strayed(rows, chain) == { Key(r) : r \in rows \ chain }

\* A suffix of the chain is replaced; a hash changes with its block's ancestors.
Reorg ==
  /\ reorgs < MaxReorgs
  /\ \E chain \in Chains, fork \in 0 .. MaxBlock :
       /\ \A r \in mined \cup chain : r.block < fork => r \in mined \cap chain
       /\ mined' = chain
       /\ hash' = IF hash = "ours" /\ fork <= indexed THEN "gone" ELSE hash
       /\ sync' = [sync EXCEPT !.tip = IF @ = "ours" /\ fork <= sync.to THEN "gone" ELSE @]
       /\ walk' = [walk EXCEPT
            !.moved = @ \cup Strayed(walk.got \cup Visible \cup sync.rows, chain)]
  /\ reorgs' = reorgs + 1
  /\ UNCHANGED <<committed, indexed, bucket, client, lost>>

\* sync asks for the block it indexed last: the chain still has it.
CheckTip ==
  /\ sync.at = "idle" /\ hash # "gone"
  /\ sync' = [sync EXCEPT !.at = "checked"]
  /\ UNCHANGED <<mined, committed, indexed, hash, reorgs, bucket, client, walk, lost>>

\* The chain has another block there, and sync goes on after the rebuild.
Rebuild ==
  /\ sync.at = "idle" /\ hash = "gone"
  /\ committed' = {} /\ indexed' = -1 /\ hash' = "none"
  /\ sync' = [sync EXCEPT !.at = "checked"]
  /\ Keep({})
  /\ UNCHANGED <<mined, reorgs, bucket, client, lost>>

ReadLogs ==
  /\ sync.at = "checked"
  /\ \E to \in indexed + 1 .. MaxBlock :
       sync' = [sync EXCEPT !.at = "read", !.to = to,
                            !.rows = { r \in mined : indexed < r.block /\ r.block <= to }]
  /\ UNCHANGED <<mined, committed, indexed, hash, reorgs, bucket, client, walk, lost>>

\* The transaction: a log whose key is stored already is not applied again.
OpenRange ==
  /\ sync.at = "read"
  /\ sync' = [sync EXCEPT !.at = "open",
                 !.rows = { r \in @ : \A s \in committed : Key(s) # Key(r) }]
  /\ UNCHANGED <<mined, committed, indexed, hash, reorgs, bucket, client, walk, lost>>

\* The block at the end of the range: none if the chain is shorter by now.
ReadTip ==
  /\ sync.at = "open" /\ sync.tip = "none"
  /\ sync' = [sync EXCEPT !.tip = "ours"]
  /\ UNCHANGED <<mined, committed, indexed, hash, reorgs, bucket, client, walk, lost>>

CommitRange ==
  /\ sync.at = "open"
  /\ committed' = Visible /\ indexed' = sync.to /\ hash' = sync.tip /\ sync' = NoSync
  /\ UNCHANGED <<mined, reorgs, bucket, client, walk, lost>>

\* A failed request at any of them, or nothing to index, ends the sync.
RollBackRange ==
  /\ sync.at # "idle"
  /\ sync' = NoSync
  /\ Keep(committed)
  /\ UNCHANGED <<mined, committed, indexed, hash, reorgs, bucket, client, lost>>
-----------------------------------------------------------------------------
(* rateLimiter: a bucket of Window ticks from its first request. *)

Counted == IF bucket.age >= Window THEN [count |-> 1, age |-> 0]
           ELSE [bucket EXCEPT !.count = @ + 1]
Remaining(b) == IF b.count >= Limit THEN 0 ELSE Limit - b.count
Limited(b) == b.count > Limit

\* The client naps for a window when its budget is nearly spent.
\* Mutant of Throttled: the client waits for an empty budget.
ThrottledAtZero(remaining) == remaining = 0
Throttled(remaining) == remaining <= Reserve

Awake == client.nap = 0

Nap ==
  /\ Awake /\ client.burst = 0 /\ walk.on /\ Throttled(client.remaining)
  /\ client' = [client EXCEPT !.nap = Window, !.remaining = NotSeen]
  /\ UNCHANGED <<store, bucket, walk, lost>>

Tick ==
  /\ bucket' = [bucket EXCEPT !.age = IF @ < Window THEN @ + 1 ELSE @]
  /\ client' = [client EXCEPT !.nap = IF @ > 0 THEN @ - 1 ELSE @]
  /\ UNCHANGED <<store, walk, lost>>
-----------------------------------------------------------------------------
(* GET /trades, newest first. *)

Newer(r, s) == r.block > s.block \/ (r.block = s.block /\ r.log > s.log)

\* Mutant of After: a cursor in the middle of a block skips the rest of it.
AfterBlock(row, cursor) == row.block < cursor.block
After(row, cursor) == Newer(cursor, row)

Selected(filter) == { r \in Visible : filter = All \/ MarketOf(r) = filter }

\* The newest rows after the cursor, as many as the page takes.
Page(filter, cursor, size) ==
  LET rows == { r \in Selected(filter) : After(r, cursor) }
  IN  { r \in rows : Cardinality({ s \in rows : Newer(s, r) }) < size }

\* The last row of a full page makes the next cursor; a short page has none.
Oldest(page) == CHOOSE r \in page : \A s \in page \ {r} : Newer(s, r)

CursorOf(row) == [block |-> row.block, log |-> row.log]

Turned(w, page) ==
  LET full == Cardinality(page) = w.size
  IN  [w EXCEPT !.got = @ \cup page,
                !.twice = @ \cup { k \in { Key(r) : r \in page } : \E s \in w.got : Key(s) = k },
                !.cursor = IF full THEN CursorOf(Oldest(page)) ELSE @,
                !.on = full, !.done = ~full]

Ended == [walk EXCEPT !.on = FALSE]
-----------------------------------------------------------------------------
(* The client. *)

StartWalk ==
  /\ Awake /\ client.burst = 0 /\ ~walk.on
  /\ \E size \in PageSizes, filter \in Filters :
       walk' = [NewWalk(size, filter) EXCEPT
                  !.kept = Selected(filter), !.moved = Strayed(Visible \cup sync.rows, mined)]
  /\ UNCHANGED <<store, bucket, client, lost>>

\* One request of the walk: a page, a 429, or a reply that is lost.  Both of
\* the last two end the walk; a 429 has no X-RateLimit-Remaining header.
TurnPage ==
  /\ Awake /\ client.burst = 0 /\ walk.on /\ ~Throttled(client.remaining)
  /\ bucket' = Counted
  /\ \/ /\ Limited(Counted)
        /\ walk' = Ended /\ client' = [client EXCEPT !.limited = TRUE] /\ lost' = 0
     \/ /\ ~Limited(Counted)
        /\ walk' = Turned(walk, Page(walk.filter, walk.cursor, walk.size))
        /\ client' = [client EXCEPT !.remaining = Remaining(Counted)] /\ lost' = 0
     \/ /\ lost < MaxLost
        /\ walk' = Ended /\ UNCHANGED client /\ lost' = lost + 1
  /\ UNCHANGED store

\* The request never reached the server.
LoseRequest ==
  /\ Awake /\ client.burst = 0 /\ walk.on /\ ~Throttled(client.remaining)
  /\ walk' = Ended
  /\ UNCHANGED <<store, bucket, client, lost>>

\* The rate-limit scenario: a window's wait, then more than the limit at once,
\* past the throttle.
StartBurst ==
  /\ Awake /\ client.burst = 0 /\ ~walk.on
  /\ client' = [client EXCEPT !.nap = Window, !.burst = Limit + 1]
  /\ UNCHANGED <<store, bucket, walk, lost>>

\* A reply that is lost ends the scenario with its budget spent.
Burst ==
  /\ Awake /\ client.burst > 0
  /\ bucket' = Counted
  /\ \/ /\ client' = [client EXCEPT !.burst = @ - 1,
                        !.remaining = IF Limited(Counted) THEN @ ELSE Remaining(Counted)]
        /\ lost' = 0
     \/ /\ lost < MaxLost
        /\ client' = [client EXCEPT !.burst = 0] /\ lost' = lost + 1
  /\ UNCHANGED <<store, walk>>

Next ==
  \/ Reorg \/ CheckTip \/ Rebuild \/ ReadLogs \/ OpenRange \/ ReadTip
  \/ CommitRange \/ RollBackRange
  \/ Nap \/ Tick \/ StartWalk \/ TurnPage \/ LoseRequest \/ StartBurst \/ Burst

Spec == Init /\ [][Next]_vars
-----------------------------------------------------------------------------
(* A walk that reached a page without a cursor returned no trade twice but   *)
(* those a reorganisation moved to another place under the walk, and every  *)
(* row that was in the store, committed or not, from its first page to its  *)
(* last, whatever the indexer added, removed or rebuilt in between.         *)
PagesExact ==
  walk.done => walk.twice \subseteq walk.moved /\ walk.kept \subseteq walk.got

(* A client that naps while the budget is nearly spent is never answered    *)
(* 429, though the replies that tell it the budget may be lost, and though  *)
(* one of its scenarios spends the whole budget on purpose.                *)
ThrottleSuffices == ~client.limited
===============================================================================
