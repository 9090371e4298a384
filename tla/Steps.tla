------------------------------- MODULE Steps -------------------------------
(***************************************************************************)
(* The step definitions of the suites, each reduced to what decides a      *)
(* verdict: the sequence of stages it goes through, where a stage is one   *)
(* way of touching the system under test and of treating its answer.       *)
(*                                                                         *)
(* A step that asks the system something can be refused, get no answer, or *)
(* throw; the step files differ in which of these they turn into a blocked *)
(* scenario (sourceError), which into a recorded revert, and which they    *)
(* let escape.  What is asked and how the answer is compared is left out.  *)
(*                                                                         *)
(*   local     touches nothing that can fail                               *)
(*   actor     looks an actor up; the table is empty when there is no chain *)
(*   bare      calls the client outside every guard                        *)
(*   peek      reads the open store, if there is one, outside every guard  *)
(*   read      guarded: skipped once blocked, an outage blocks             *)
(*   fetch     guarded, but runs even when the scenario is blocked already *)
(*   attempt   a write: the receipt or the revert becomes the last call    *)
(*   act       a write of the store tier: only its revert becomes that     *)
(*   afterOk   a bare call made only when the last call succeeded          *)
(*   catchUp   waits for the store; not caught up is an unobservable       *)
(*   artifact  needs the build artifact; none is an unobservable           *)
(*   look      asks and compares in one go; an outage is an unobservable   *)
(*   swallow   the same with a catch-all inside: an outage is a mismatch   *)
(*   recorded  compares what an earlier stage fetched                      *)
(*   note      checks a pure computation, blocked or not                   *)
(*   succeeds  the last call succeeded                                     *)
(*   reverts   the last call reverted, with the error expected             *)
(*   claim     names something the environment cannot show                 *)
(***************************************************************************)

Read == <<"read">>
Attempt == <<"attempt">>
Look == <<"look">>
Recorded == <<"recorded">>
Local == <<"local">>

(***************************************************************************)
(* be/contract/steps/perpdex.steps.js: scenarios over the exchange itself. *)
(***************************************************************************)
FundingSteps == {Read, <<"read", "read">>, <<"bare", "bare", "read">>,
                 <<"actor">>, <<"actor", "read">>}

TradingSteps == {Attempt, <<"bare", "attempt">>, <<"bare", "bare", "attempt">>}

TriggerOrderSteps == {Attempt}

CancelSteps == {Attempt}

AccountSteps == {Attempt, <<"bare", "attempt">>}

KeeperSteps == {<<"read", "attempt">>, Attempt}

AdminSteps == {Attempt, <<"bare", "attempt">>, <<"bare", "attempt", "afterOk">>, Read}

OracleSteps == {Attempt, <<"bare", "bare", "attempt">>}

\* A fill that lands the mark: two reads, two guarded orders, the mark.
MarkFillSteps == {<<"bare", "bare", "read", "bare">>}

\* The liquidation walk: an actor, four reads, then a guarded loop.
WalkSteps == {<<"actor", "bare", "bare", "bare", "bare", "read">>}

OutcomeThens == {<<"succeeds">>, <<"reverts">>}

RevertThens == {Recorded}

AccountThens == {Look}

PositionThens == {Look}

BookThens == {Look}

\* "reading the index reverts with ..." catches every error of its own call.
PriceThens == {Look, <<"swallow">>, <<"actor", "look">>}

MarketThens == {Look, Recorded}

WalkThens == {Recorded}

EventThens == {Recorded, Look}

(***************************************************************************)
(* be/db/steps/store.steps.js: the store against the chain.                *)
(***************************************************************************)
BackgroundSteps == {<<"read", "act", "catchUp">>, <<"catchUp">>}

ChainLevers == {<<"act">>, Local}

IndexerLevers == {<<"act">>}

NotingSteps == {<<"peek">>}

SchemaThens == {Look, Local, Recorded}

IndexerStateThens == {Look}

MarketRowThens == {Look}

TradeRowThens == {Look}

OrderRowThens == {Look}

PositionRowThens == {Look}

FlowRowThens == {Look}

SecondDeploymentSteps == {<<"artifact", "act">>, Attempt}

MarkThens == {Look}

(***************************************************************************)
(* be/api/steps/mini.steps.js and mini-security.steps.js: the REST server. *)
(* A request is guarded, and so is the health check, which also blocks on  *)
(* any answer but 200.                                                     *)
(***************************************************************************)
RequestSteps == {Read}

PagingSteps == {Read}

BurstSteps == {Read}

TokenSteps == {Read}

ResponseThens == {Look}

CatalogueThens == {Look}

PageThens == {Look}

FundingAndLiquidationThens == {Look}

PortfolioThens == {Look}

SecuritySteps == {Read, Look}

(***************************************************************************)
(* be/bot/steps/bot.steps.js.  A placing step keeps a revert for the Then  *)
(* steps, never as the last call.                                          *)
(***************************************************************************)
RiskSteps == {Local}

DecisionThens == {Recorded, <<"note">>}

BotSteps == {Read, Local}

PlacingSteps == {Read}

CancellingSteps == {Read}

BotThens == {Recorded, Look}

(***************************************************************************)
(* The live protocol: contract/steps/gmx.steps.js, gmx-extra.steps.js,     *)
(* api/steps/gmx.steps.js.                                                 *)
(***************************************************************************)
Fetch == <<"fetch">>
FetchAndCompare == <<"fetch", "recorded">>

ProtocolGivens == {Fetch}

ProtocolThens == {Recorded}

WeightThens == {Look}

LeverageThens == {FetchAndCompare, Recorded}

FundingTimeThens == {Recorded}

TokenThens == {FetchAndCompare}

ConfigThens == {Look}

EveryTokenThens == {Look}

VenueGivens == {Fetch}

VenueThens == {Recorded}

ExpandedSteps == {Fetch, Recorded}

(***************************************************************************)
(* fe/ui/steps/trading.steps.js, and support/common.steps.js for all tiers. *)
(***************************************************************************)
ScreenGivens == {Fetch}

ScreenThens == {Recorded}

CommonThens == {<<"claim">>}

(***************************************************************************)
(* fe/ui/specs/trading-screen.spec.js: a whole test is one sequence.       *)
(***************************************************************************)
PriceTest == <<"fetch", "fetch", "recorded">>
OpenInterestTest == <<"fetch", "fetch", "recorded", "recorded">>
SplitTest == <<"fetch", "recorded">>
OracleTest == <<"fetch", "fetch", "recorded">>

SpecTests == {PriceTest, OpenInterestTest, SplitTest, OracleTest}

-----------------------------------------------------------------------------
PerpDexSteps ==
    UNION {FundingSteps, TradingSteps, TriggerOrderSteps, CancelSteps, AccountSteps,
           KeeperSteps, AdminSteps, OracleSteps, MarkFillSteps, WalkSteps,
           OutcomeThens, RevertThens, AccountThens, PositionThens, BookThens,
           PriceThens, MarketThens, WalkThens, EventThens}

StoreSteps ==
    UNION {BackgroundSteps, ChainLevers, IndexerLevers, NotingSteps, SchemaThens,
           IndexerStateThens, MarketRowThens, TradeRowThens, OrderRowThens,
           PositionRowThens, FlowRowThens, SecondDeploymentSteps, MarkThens}

MiniApiSteps ==
    UNION {RequestSteps, PagingSteps, BurstSteps, TokenSteps, ResponseThens,
           CatalogueThens, PageThens, FundingAndLiquidationThens, PortfolioThens,
           SecuritySteps}

TradingBotSteps ==
    UNION {RiskSteps, DecisionThens, BotSteps, PlacingSteps, CancellingSteps, BotThens}

\* The scenarios over the exchange of the repository, those over the live
\* protocol, and those over the trading screen.
VenueSteps == PerpDexSteps \cup StoreSteps \cup MiniApiSteps \cup TradingBotSteps \cup CommonThens

LiveSteps ==
    UNION {ProtocolGivens, ProtocolThens, WeightThens, LeverageThens, FundingTimeThens,
           TokenThens, ConfigThens, EveryTokenThens, VenueGivens, VenueThens,
           ExpandedSteps, CommonThens}

ScreenSteps == UNION {ScreenGivens, ScreenThens, CommonThens}

=============================================================================
