---------------------------- MODULE RestCatalogue ----------------------------
(***************************************************************************)
(* The API cases of src/testcases/miniapi.cases.js that are decided by the  *)
(* routes alone: a request, and the status and code it must get.  The last *)
(* of them are answers of the code that no case asks for.                  *)
(***************************************************************************)
EXTENDS RestRoutes

DeployedMarkets == 0 .. 2
Alice == Address("alice")
Bob == Address("bob")

\* The admin's token, then the tokens the cases mint, all at time 0.
AdminKeys == IssueToken({}, 0, "admin", "admin", NoSubject, 0)
Keys ==
  LET read == IssueToken(AdminKeys, 0, "reader", "read", NoSubject, 0)
      own  == IssueToken(read, 0, "alices", "portfolio", Checksummed("alice"), 0)
  IN  IssueToken(own, 0, "brief", "portfolio", Alice, 1)

NoAuth == [scheme |-> "none", token |-> "none"]
Bearer(token) == [scheme |-> "Bearer", token |-> token]

NoQuery == <<>>
Request(method, path, query, auth, body) ==
  [method |-> method, path |-> path, query |-> query, auth |-> auth, body |-> body]
GetOf(path, query) == Request("GET", path, query, NoAuth, <<>>)
AnswerOf(request, now) == Route(DeployedMarkets, Keys, now, request)

Market(v) == GetOf(<<Text("markets"), v>>, NoQuery)
Depth(v) == GetOf(<<Text("orderbook"), Num(1)>>, [depth |-> v])
Trades(query) == GetOf(<<Text("trades")>>, query)
Funding(query) == GetOf(<<Text("funding"), Text("history")>>, query)
Portfolio(query, auth) == Request("GET", <<Text("portfolio"), Text("summary")>>, query, auth, <<>>)
Mint(auth, body) == Request("POST", <<Text("auth"), Text("token")>>, NoQuery, auth, body)

Answers(requests, now, answer) == \A r \in requests : AnswerOf(r, now) = answer

MarketCases ==
  /\ Answers({Market(Num(1)), GetOf(<<Text("markets")>>, NoQuery),
              GetOf(<<Text("markets"), Num(1), Text("status")>>, NoQuery)}, 0, Ok(200))
  /\ Answers({Market(Num(99)), Market(Text("abc"))}, 0, NotFound)

OrderbookCases ==
  /\ AnswerOf(GetOf(<<Text("orderbook"), Num(1)>>, NoQuery), 0) = Ok(200)
  /\ Answers({Depth(Num(0)), Depth(Num(51)), Depth(Text("x"))}, 0, BadRequest)

AccountCases ==
  /\ Answers({GetOf(<<Text("orders"), Alice>>, q) :
                q \in {NoQuery, [status |-> Text("Cancelled")], [status |-> Text("all")]}},
             0, Ok(200))
  /\ Answers({GetOf(<<Text("orders"), Text("not-an-address")>>, NoQuery),
              GetOf(<<Text("orders"), Text("0x1234")>>, [status |-> Text("Weird")])},
             0, BadRequest)
  /\ AnswerOf(GetOf(<<Text("positions"), Alice>>, NoQuery), 0) = Ok(200)

TradesCases ==
  /\ Answers({Trades([limit |-> Num(2)]), Trades(NoQuery), Trades([market |-> Num(1)])},
             0, Ok(200))
  /\ PageLimit(Trades([limit |-> Num(1000)])) = 100
  /\ Answers({Trades([limit |-> Num(0)]), Trades([limit |-> Text("abc")]),
              Trades([cursor |-> Text("%%%")])}, 0, BadRequest)
  /\ AnswerOf(Trades([market |-> Num(99)]), 0) = NotFound

FundingCases ==
  /\ Answers({Funding([market |-> Num(1), period |-> p]) : p \in PERIODS}, 0, Ok(200))
  /\ Answers({Funding([market |-> Num(1), period |-> Text(p)]) : p \in {"2h", "x"}}, 0, BadRequest)
  /\ AnswerOf(Funding(NoQuery), 0) = BadRequest

PortfolioCases ==
  /\ Answers({Portfolio(NoQuery, NoAuth), Portfolio(NoQuery, Bearer("nope")),
              Portfolio([account |-> Alice], [scheme |-> "Token", token |-> "alices"])},
             0, Error(401, "unauthenticated"))
  /\ AnswerOf(Portfolio(NoQuery, Bearer("reader")), 0) = Error(403, "forbidden")
  /\ AnswerOf(Portfolio([account |-> Bob], Bearer("alices")), 0) = Error(403, "forbidden")
  /\ Answers({Portfolio(NoQuery, Bearer("alices")), Portfolio([account |-> Alice], Bearer("alices")),
              Portfolio([account |-> Checksummed("alice")], Bearer("alices"))}, 0, Ok(200))
  /\ AnswerOf(Portfolio(NoQuery, Bearer("brief")), 2) = Error(401, "token_expired")

TokenCases ==
  LET body == [scope |-> Text("read")]
  IN  /\ AnswerOf(Mint(Bearer("reader"), body), 0) = Error(403, "forbidden")
      /\ AnswerOf(Mint(NoAuth, body), 0) = Error(401, "unauthenticated")
      /\ AnswerOf(Mint(Bearer("admin"), body), 0) = Ok(201)
      /\ Answers({Mint(Bearer("admin"), [scope |-> Text("root")]),
                  Mint(Bearer("admin"), [scope |-> Text("read"), subject |-> Text("x")])},
                 0, BadRequest)

Steer(auth, body) == Request("POST", <<Text("admin"), Text("indexer")>>, NoQuery, auth, body)

\* Bodies of either POST route, by what readBody and the handler make of them; a
\* name every object has is taken for a scope until the table of keys refuses
\* it, and for a period.
BodyCases ==
  LET of(why) == { Mint(Bearer("admin"), Unreadable(why)), Steer(Bearer("admin"), Unreadable(why)) }
  IN  /\ Answers(of("size"), 0, Error(413, "too_large"))
      /\ Answers(of("syntax"), 0, BadRequest)
      /\ Answers(of("null"), 0, Internal)
      /\ AnswerOf(Mint(Bearer("reader"), Unreadable("size")), 0) = Error(403, "forbidden")
      /\ AnswerOf(Mint(Bearer("admin"), <<>>), 0) = BadRequest
      /\ Answers({Steer(Bearer("admin"), b) : b \in {[rewind |-> Num(-2)], [paused |-> Text("x")], <<>>}},
                 0, BadRequest)
      /\ Answers({Steer(Bearer("admin"), b) : b \in {[rewind |-> Num(-1)], [paused |-> Text("true")]}},
                 0, Ok(200))

InheritedCases ==
  /\ Answers({Funding([market |-> Num(1), period |-> p]) : p \in Inherited}, 0, Ok(200))
  /\ Answers({Mint(Bearer("admin"), [scope |-> s]) : s \in Inherited}, 0, Internal)
  /\ Answers({GetOf(<<Text("orders"), Alice>>, [status |-> s]) : s \in Inherited}, 0, BadRequest)

\* The origins of the api.cors cases; none of the others is a near enough match.
CorsCases ==
  LET allowed == {"http://localhost:5173", "https://app.example.test"}
      from(origin) == AllowedOrigin(allowed, [origin |-> origin])
  IN  /\ from("https://app.example.test")
      /\ \A o \in {"https://app.example.test.evil.com", "https://example.test",
                   "http://app.example.test", "https://app.example.test:443",
                   "null", "none"} : ~from(o)

RouteCases ==
  /\ MarketCases /\ OrderbookCases /\ AccountCases /\ TradesCases /\ FundingCases
  /\ PortfolioCases /\ TokenCases /\ CorsCases /\ BodyCases /\ InheritedCases
===============================================================================
