------------------------------ MODULE RestRoutes ------------------------------
(***************************************************************************)
(* The routes of mini-api (src/services/mini-api/server.js, lib/http.js):   *)
(* which answer a request gets, as far as its status and error code go.    *)
(*                                                                         *)
(* A request is [method, path, query, auth, body].  A path segment, a query *)
(* or body value is a number or a text, as the handler's checks tell them. *)
(* A body is a record of its fields, or Unreadable.                        *)
(***************************************************************************)
EXTENDS Integers, Sequences, SequencesExt

Num(n)  == [num |-> n]
Text(s) == [text |-> s]
IsNum(v) == "num" \in DOMAIN v

\* An address in lower case, as rows and tokens keep it, or with the upper-case
\* letters of its checksum.
Address(who) == [address |-> who, upper |-> FALSE]
Checksummed(who) == [address |-> who, upper |-> TRUE]
IsAddress(v) == "address" \in DOMAIN v
ToLowerCase(v) == IF IsAddress(v) THEN [v EXCEPT !.upper = FALSE] ELSE v

Ok(status) == [status |-> status, code |-> "ok"]
Error(status, code) == [status |-> status, code |-> code]
BadRequest == Error(400, "bad_request")
Internal == Error(500, "internal")
NotFound == Error(404, "not_found")
Passed == Ok(0)

\* The first check that fails answers; then the handler does.
Checked(checks, answer) ==
  LET failed == SelectSeq(checks, LAMBDA c : c # Passed)
  IN  IF failed = <<>> THEN answer ELSE Head(failed)

Given(request, name) == name \in DOMAIN request.query
Query(request, name) == request.query[name]

RequireMarket(markets, v) ==
  IF IsNum(v) /\ v.num \in markets THEN Passed ELSE NotFound

OptionalMarket(markets, request) ==
  IF Given(request, "market") THEN RequireMarket(markets, Query(request, "market"))
  ELSE Passed

Within(v, low, high) ==
  IF IsNum(v) /\ v.num >= low /\ v.num <= high THEN Passed ELSE BadRequest

\* pageParams: any limit from 1 on, capped at 100; a cursor this server made.
PageParams(request) ==
  IF /\ Given(request, "limit") => IsNum(Query(request, "limit"))
                                   /\ Query(request, "limit").num >= 1
     /\ Given(request, "cursor") => "cursor" \in DOMAIN Query(request, "cursor")
  THEN Passed ELSE BadRequest

PageLimit(request) ==
  IF ~Given(request, "limit") THEN 50
  ELSE IF Query(request, "limit").num > 100 THEN 100 ELSE Query(request, "limit").num

OrderStatuses == { Text(s) : s \in {"Open", "Pending", "Filled", "Cancelled", "all"} }
PERIODS == { Text(p) : p \in {"1h", "8h", "1d"} }

\* The names every object inherits.  JavaScript's `in` finds them in a table
\* that has no such entry; Array.includes does not.
Inherited == { Text(p) : p \in {"constructor", "hasOwnProperty", "toString", "valueOf"} }
FoundIn(v, table) == v \in table \cup Inherited

StatusOf(request) ==
  IF Given(request, "status") => Query(request, "status") \in OrderStatuses
  THEN Passed ELSE BadRequest

\* An inherited name is a period of no length: the answer is 200 with no rows.
PeriodOf(request) ==
  IF Given(request, "period") => FoundIn(Query(request, "period"), PERIODS)
  THEN Passed ELSE BadRequest
-----------------------------------------------------------------------------
(* Tokens.  keys is a set of [token, scope, subject, expires]; a key with   *)
(* expires = Never has none.                                               *)

RANK == [read |-> 1, portfolio |-> 2, admin |-> 3]
Never == -1
NoSubject == Text("none")

KeyOf(keys, request) == CHOOSE k \in keys : k.token = request.auth.token

Authenticate(keys, now, request) ==
  IF request.auth.scheme # "Bearer" \/ \A k \in keys : k.token # request.auth.token
    THEN Error(401, "unauthenticated")
  ELSE IF KeyOf(keys, request).expires # Never /\ KeyOf(keys, request).expires < now
    THEN Error(401, "token_expired")
  ELSE Passed

RequireScope(keys, request, scope) ==
  IF \E k \in keys : k.token = request.auth.token /\ RANK[k.scope] >= RANK[scope]
  THEN Passed ELSE Error(403, "forbidden")

\* issueToken: the subject is stored in lower case, whatever the request wrote; a
\* ttl of 0, like none, is a token that never expires.
IssueToken(keys, now, token, scope, subject, ttl) ==
  keys \cup {[token |-> token, scope |-> scope, subject |-> ToLowerCase(subject),
              expires |-> IF ttl = 0 THEN Never ELSE now + ttl]}

\* The account of the query is put in lower case too: the two are compared.
PortfolioSubject(keys, request) ==
  IF Given(request, "account") THEN ToLowerCase(Query(request, "account"))
  ELSE KeyOf(keys, request).subject

\* A key that is not an admin's reads its own subject, by name or by default.
OwnAccount(keys, request) ==
  IF \A k \in keys : k.token # request.auth.token THEN Passed
  ELSE IF PortfolioSubject(keys, request) = NoSubject THEN BadRequest
  ELSE IF KeyOf(keys, request).scope # "admin"
          /\ KeyOf(keys, request).subject # PortfolioSubject(keys, request)
    THEN Error(403, "forbidden")
  ELSE Passed

HasBody(request, name) == name \in DOMAIN request.body

\* A body no field can be read from: one that is over the size, one that is not
\* JSON, and the JSON null, whose first field throws where nothing catches it.
Unreadable(why) == [unreadable |-> why]
ReadBody(request) ==
  IF ~HasBody(request, "unreadable") THEN Passed
  ELSE CASE request.body.unreadable = "size"   -> Error(413, "too_large")
         [] request.body.unreadable = "syntax" -> BadRequest
         [] request.body.unreadable = "null"   -> Internal

Scopes == { Text(s) : s \in DOMAIN RANK }

TokenBody(request) ==
  IF /\ HasBody(request, "scope") /\ FoundIn(request.body.scope, Scopes)
     /\ HasBody(request, "subject") => IsAddress(request.body.subject)
  THEN Passed ELSE BadRequest

\* The table of keys takes the three scopes only: for any other the insertion
\* throws, and the handler answers 500.
KeyStored(request) ==
  IF HasBody(request, "scope") /\ request.body.scope \in Scopes THEN Passed ELSE Internal

IndexerBody(request) ==
  IF IF HasBody(request, "rewind")
       THEN IsNum(request.body.rewind) /\ request.body.rewind.num >= -1
       ELSE HasBody(request, "paused") /\ request.body.paused \in {Text("true"), Text("false")}
  THEN Passed ELSE BadRequest
-----------------------------------------------------------------------------
(* route. *)

Begins(request, names) ==
  /\ Len(request.path) >= Len(names)
  /\ \A k \in DOMAIN names : request.path[k] = Text(names[k])

Admin(keys, now, request) ==
  <<Authenticate(keys, now, request), RequireScope(keys, request, "admin")>>

\* The routes in the handler's order; what no route takes is 404, or 405 for a
\* method that has none.
Route(markets, keys, now, request) ==
  LET p == request.path
      get == request.method = "GET"
      post == request.method = "POST"
  IN  IF get /\ Begins(request, <<"health">>) /\ Len(p) = 1 THEN Ok(200)
      ELSE IF get /\ Begins(request, <<"markets">>) /\ Len(p) = 1 THEN Ok(200)
      ELSE IF get /\ Begins(request, <<"markets">>)
              /\ (Len(p) = 2 \/ p[3] = Text("status"))
        THEN Checked(<<RequireMarket(markets, p[2])>>, Ok(200))
      ELSE IF get /\ Begins(request, <<"orderbook">>) /\ Len(p) >= 2
        THEN Checked(<<RequireMarket(markets, p[2]),
                       IF Given(request, "depth") THEN Within(Query(request, "depth"), 1, 50)
                       ELSE Passed>>, Ok(200))
      ELSE IF get /\ Begins(request, <<"orders">>) /\ Len(p) >= 2
        THEN Checked(<<IF IsAddress(p[2]) THEN Passed ELSE BadRequest,
                       StatusOf(request)>>, Ok(200))
      ELSE IF get /\ Begins(request, <<"positions">>) /\ Len(p) >= 2
        THEN Checked(<<IF IsAddress(p[2]) THEN Passed ELSE BadRequest>>, Ok(200))
      ELSE IF get /\ (Begins(request, <<"trades">>) \/ Begins(request, <<"liquidations">>))
              /\ Len(p) = 1
        THEN Checked(<<OptionalMarket(markets, request), PageParams(request)>>, Ok(200))
      ELSE IF get /\ Begins(request, <<"funding", "history">>)
        THEN Checked(<<IF Given(request, "market") THEN Passed ELSE BadRequest,
                       OptionalMarket(markets, request),
                       PeriodOf(request), PageParams(request)>>, Ok(200))
      ELSE IF get /\ Begins(request, <<"portfolio", "summary">>)
        THEN Checked(<<Authenticate(keys, now, request),
                       RequireScope(keys, request, "portfolio"),
                       OwnAccount(keys, request)>>, Ok(200))
      ELSE IF post /\ Begins(request, <<"auth", "token">>)
        THEN Checked(Admin(keys, now, request)
                       \o <<ReadBody(request), TokenBody(request), KeyStored(request)>>, Ok(201))
      ELSE IF post /\ Begins(request, <<"admin", "indexer">>)
        THEN Checked(Admin(keys, now, request)
                       \o <<ReadBody(request), IndexerBody(request)>>, Ok(200))
      ELSE IF get \/ post THEN NotFound
      ELSE Error(405, "method_not_allowed")
-----------------------------------------------------------------------------
(* cors: the origins that are sent back to the browser.  Origins are        *)
(* compared without case; a request with no Origin gets no header.         *)
AllowedOrigin(allowed, request) ==
  request.origin # "none" /\ request.origin \in allowed
===============================================================================
