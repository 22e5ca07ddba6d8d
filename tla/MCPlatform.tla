---------------------------- MODULE MCPlatform ----------------------------
(***************************************************************************)
(* The services around the pipeline, checked together.  They share no      *)
(* variable, so a behaviour of one says nothing about another: focus names *)
(* the one that takes its steps in a behaviour, and the others stay in     *)
(* their initial states.  The reachable states are the sum of the          *)
(* components' and not their product.                                      *)
(***************************************************************************)
EXTENDS Accounts, Datasets, Configurations, MetricCatalogue, Listing, ResultReads,
        RateLimiter, SessionRefresh, LiveView

VARIABLE focus

\* AuditAction with the five members that handlers name and it lacks.
RepairedActions == CommittedActions \cup NamedActions

AllButAccounts == <<focus, datasetVars, configVars, metricVars, listVars, resultVars,
                    rateVars, sessionVars, liveVars>>
AllButDatasets == <<focus, accountVars, configVars, metricVars, listVars, resultVars,
                    rateVars, sessionVars, liveVars>>
AllButConfigs == <<focus, accountVars, datasetVars, metricVars, listVars, resultVars,
                   rateVars, sessionVars, liveVars>>
AllButMetrics == <<focus, accountVars, datasetVars, configVars, listVars, resultVars,
                   rateVars, sessionVars, liveVars>>
AllButLists == <<focus, accountVars, datasetVars, configVars, metricVars, resultVars,
                 rateVars, sessionVars, liveVars>>
AllButResults == <<focus, accountVars, datasetVars, configVars, metricVars, listVars,
                   rateVars, sessionVars, liveVars>>
AllButRates == <<focus, accountVars, datasetVars, configVars, metricVars, listVars,
                 resultVars, sessionVars, liveVars>>
AllButSession == <<focus, accountVars, datasetVars, configVars, metricVars, listVars,
                   resultVars, rateVars, liveVars>>
AllButLive == <<focus, accountVars, datasetVars, configVars, metricVars, listVars,
                resultVars, rateVars, sessionVars>>
platformVars == <<AllButLive, liveVars>>

PlatformInit ==
    /\ AccountsInit /\ DatasetsInit /\ ConfigurationsInit /\ MetricsInit
    /\ ListingInit /\ ResultsInit /\ RateInit /\ SessionInit /\ LiveInit
    /\ focus \in {"accounts", "datasets", "configs", "metrics", "lists", "results",
                  "rates", "session", "live"}

PlatformNext ==
    \/ focus = "accounts" /\ AccountsNext /\ UNCHANGED AllButAccounts
    \/ focus = "datasets" /\ DatasetsNext /\ UNCHANGED AllButDatasets
    \/ focus = "configs" /\ ConfigurationsNext /\ UNCHANGED AllButConfigs
    \/ focus = "metrics" /\ MetricsNext /\ UNCHANGED AllButMetrics
    \/ focus = "lists" /\ ListingNext /\ UNCHANGED AllButLists
    \/ focus = "results" /\ ResultsNext /\ UNCHANGED AllButResults
    \/ focus = "rates" /\ RateNext /\ UNCHANGED AllButRates
    \/ focus = "session" /\ SessionNext /\ UNCHANGED AllButSession
    \/ focus = "live" /\ LiveNext /\ UNCHANGED AllButLive

PlatformSpec == PlatformInit /\ [][PlatformNext]_platformVars /\ SessionFairness
===========================================================================
