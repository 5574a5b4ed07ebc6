------------------------------ MODULE Scoring ------------------------------
(***************************************************************************)
(* Scoring runs beside a job that may still move, and the results page     *)
(* that shows them (scoring.routes.ts, scoring.repository.ts,              *)
(* ScoringPanel.tsx, ResultsPanel.tsx).  Of the job it knows what          *)
(* JobContract promises: the metrics of a store are there exactly when its *)
(* result is "enriched".                                                   *)
(*                                                                         *)
(* Grain: one action per statement whose reads matter.  The rows of a run  *)
(* are written where they are computed and seen once it is saved.          *)
(***************************************************************************)
EXTENDS JobContract, ScoringRule, Sequences, FiniteSets

CONSTANTS
  MetricsOf,   (* what the API knows of each task's store                   *)
  StoreIdOf,   (* stores.store_id of each task, as its rank in text order   *)
  Configs,     (* settings anybody submits                                  *)
  Clients,     (* who posts scoring runs, one request at a time             *)
  Pages,       (* the clients that are a dashboard page                     *)
  JobOpen,     (* the job a client looks at                                 *)
  MaxRuns,     (* bound: scoring runs                                       *)
  PageSize     (* PAGE                                                      *)

ASSUME ScoringAssumption ==
  /\ MetricsOf \in [Tasks -> [Metrics -> Nat]]
  /\ StoreIdOf \in [Tasks -> Nat]
  /\ \A c \in Configs : ValidConfig(c)
  /\ Pages \subseteq Clients /\ JobOpen \in [Clients -> Jobs]
  /\ MaxRuns \in Nat /\ PageSize \in Nat \ {0}

VARIABLES
  runs,        (* scoring_configs with their store_scores, by (created_at, id) *)
  post,        (* the request POST /scoring-runs of each client             *)
  shown,       (* each page's cache entry ['run', job]: a run, 0 for none   *)
  lookup,      (* the answer of its GET latest under way, if any            *)
  lists        (* its entries ['stores', job, run], {} before the first     *)

server == <<runs, post>>
page == <<shown, lookup, lists>>
scoringVars == <<runs, post, shown, lookup, lists>>

Idle == [step |-> "idle", status |-> "ABSENT", run |-> 0]

ScoringInit ==
  /\ runs = <<>>
  /\ post = [c \in Clients |-> Idle]
  /\ shown = [p \in Pages |-> 0]
  /\ lookup = [p \in Pages |-> {}]
  /\ lists = [p \in Pages |-> [n \in 1..MaxRuns |-> {}]]

Enriched(j) == {t \in TasksOf(j) : results[t] = "enriched"}

Writing == {"inserted", "scored", "saved"}

Saved == {n \in DOMAIN runs : runs[n].saved}

(* The answer's word on the run, "none" before it is given.                 *)
Claims == {"none", "partial", "complete"}

-----------------------------------------------------------------------------
(* POST /jobs/:id/scoring-runs.                                             *)

RequireJob(c) ==
  /\ post[c].step = "idle"
  /\ jobs[JobOpen[c]] # "ABSENT"
  /\ post' = [post EXCEPT ![c] = [step |-> "checked", status |-> jobs[JobOpen[c]], run |-> 0]]
  /\ UNCHANGED <<runs, page>>

(* The transaction begins, which fixes created_at, and inserts the config.  *)
InsertConfig(c, config) ==
  /\ post[c].step = "checked"
  /\ Len(runs) < MaxRuns
  /\ runs' = Append(runs, [job |-> JobOpen[c], config |-> config, scores |-> {},
                           saved |-> FALSE, claim |-> "none"])
  /\ post' = [post EXCEPT ![c].step = "inserted", ![c].run = Len(runs) + 1]
  /\ UNCHANGED page

ScoreRow(t, config) ==
  [task |-> t, score |-> ScoreStore(MetricsOf[t], config),
   tier |-> TierFor(ScoreStore(MetricsOf[t], config), config)]

(* One statement reads the metrics there are at this moment.                *)
ScoreStores(c) ==
  /\ post[c].step = "inserted"
  /\ runs' = [runs EXCEPT ![post[c].run].scores =
       {ScoreRow(t, runs[post[c].run].config) : t \in Enriched(JobOpen[c])}]
  /\ post' = [post EXCEPT ![c].step = "scored"]
  /\ UNCHANGED page

CommitRun(c) ==
  /\ post[c].step = "scored"
  /\ runs' = [runs EXCEPT ![post[c].run].saved = TRUE]
  /\ post' = [post EXCEPT ![c].step = "saved"]
  /\ UNCHANGED page

(* A statement fails: the transaction leaves nothing behind.                *)
RunFails(c) ==
  /\ post[c].step \in {"inserted", "scored"}
  /\ runs' = [runs EXCEPT ![post[c].run].scores = {}]
  /\ post' = [post EXCEPT ![c] = Idle]
  /\ UNCHANGED page

(* Mutated form of Partial: the status is read when the answer is written.  *)
PartialNow(c) == jobs[JobOpen[c]] = "RUNNING"

Partial(c) == post[c].status = "RUNNING"

(* What onSuccess does with the answer: setQueryData; the next ReadStores   *)
(* stands for invalidateQueries.                                            *)
ShowRun(c) ==
  /\ shown' = [p \in Pages |-> IF p = c THEN post[c].run ELSE shown[p]]
  /\ UNCHANGED <<lookup, lists>>

AnswerRun(c) ==
  /\ post[c].step = "saved"
  /\ runs' = [runs EXCEPT ![post[c].run].claim = IF Partial(c) THEN "partial" ELSE "complete"]
  /\ post' = [post EXCEPT ![c] = Idle]
  /\ ShowRun(c)

AnswerLost(c) ==
  /\ post[c].step \in {"checked", "saved"}
  /\ post' = [post EXCEPT ![c] = Idle]
  /\ UNCHANGED <<runs, page>>

-----------------------------------------------------------------------------
(* The results page.                                                        *)

(* n is the latest saved run of job j, 0 if there is none.                  *)
IsLatest(j, n) ==
  LET ofJob == {m \in Saved : runs[m].job = j}
  IN IF ofJob = {} THEN n = 0 ELSE n \in ofJob /\ \A m \in ofJob : m <= n

(* GET latest, on mount and on reconnect.                                   *)
ReadLatest(p) ==
  /\ lookup[p] = {}
  /\ \E n \in Saved \cup {0} : /\ IsLatest(JobOpen[p], n)
                             /\ lookup' = [lookup EXCEPT ![p] = {n}]
  /\ UNCHANGED <<server, shown, lists>>

(* The answer, or none.  It replaces a run that setQueryData put there in   *)
(* the meantime.                                                            *)
LatestArrives(p) ==
  /\ lookup[p] # {}
  /\ lookup' = [lookup EXCEPT ![p] = {}]
  /\ \E n \in lookup[p] \cup {shown[p]} : shown' = [shown EXCEPT ![p] = n]
  /\ UNCHANGED <<server, lists>>

(* Enriched stores with their tier in run n, null if they have none.        *)
TierIn(n, t) ==
  IF \E s \in runs[n].scores : s.task = t
  THEN (CHOOSE s \in runs[n].scores : s.task = t).tier ELSE "none"

(* Mutated form of Listed: the tiers of the latest run, whatever was asked. *)
ListedLatest(p, n) ==
  {[task |-> t, tier |-> TierIn(m, t)] :
     t \in Enriched(JobOpen[p]), m \in {k \in Saved : IsLatest(JobOpen[p], k)}}

Listed(p, n) == {[task |-> t, tier |-> TierIn(n, t)] : t \in Enriched(JobOpen[p])}

(* GET stores?run=... for the run that is shown, on its way into the cache  *)
(* entry of that run.  Until it is there the page keeps what it showed      *)
(* before (keepPreviousData).                                               *)
ReadStores(p) ==
  /\ shown[p] # 0
  /\ lists' = [lists EXCEPT ![p][shown[p]] = Listed(p, shown[p])]
  /\ UNCHANGED <<server, shown, lookup>>

(* The bars the page marks in the row of a store.                           *)
Marked(p, t) == ClearedBars(MetricsOf[t], runs[shown[p]].config)

PostStep(c) ==
  \/ RequireJob(c)
  \/ \E config \in Configs : InsertConfig(c, config)
  \/ ScoreStores(c)
  \/ CommitRun(c)
  \/ RunFails(c)
  \/ AnswerRun(c)
  \/ AnswerLost(c)

PageStep(p) ==
  \/ ReadLatest(p)
  \/ LatestArrives(p)
  \/ ReadStores(p)

ScoringStep == (\E c \in Clients : PostStep(c)) \/ (\E p \in Pages : PageStep(p))

-----------------------------------------------------------------------------
(* The order of GET stores?sort=score&order=desc: NULLs first, then by      *)
(* score, then by store_id ("stable paging when values tie").               *)
ScoreIn(n, t) == {s.score : s \in {r \in runs[n].scores : r.task = t}}

HigherScore(n, t, u) ==
  \/ ScoreIn(n, t) = {} /\ ScoreIn(n, u) # {}
  \/ \E a \in ScoreIn(n, t), b \in ScoreIn(n, u) : a > b

(* Mutated form of SortsAfter: no second ORDER BY.                          *)
SortsAfterByScore(n, t, u) == HigherScore(n, u, t)

SortsAfter(n, t, u) ==
  \/ HigherScore(n, u, t)
  \/ ~HigherScore(n, t, u) /\ StoreIdOf[u] < StoreIdOf[t]

(* Every sequence Postgres may return for the whole list of run n.          *)
Listings(n) ==
  LET rows == Enriched(runs[n].job)
  IN {s \in [1..Cardinality(rows) -> rows] :
        /\ \A t \in rows : \E i \in DOMAIN s : s[i] = t
        /\ \A i, k \in DOMAIN s : i < k => ~SortsAfter(n, s[i], s[k])}

(* Page k, from 0: limit PageSize, offset k * PageSize; and what follows it.*)
OnPage(s, k) == {s[i] : i \in {i \in DOMAIN s : k * PageSize < i /\ i <= (k + 1) * PageSize}}

Beyond(s, k) == {s[i] : i \in {i \in DOMAIN s : (k + 1) * PageSize < i}}

-----------------------------------------------------------------------------
ScoringTypeOK ==
  /\ runs \in Seq([job : Jobs, config : Configs, saved : BOOLEAN, claim : Claims,
                   scores : SUBSET [task : Tasks, score : 0..100, tier : Tiers]])
  /\ Len(runs) <= MaxRuns
  /\ post \in [Clients -> [step : {"idle", "checked", "inserted", "scored", "saved"},
                           status : JobStatuses, run : 0..MaxRuns]]
  /\ shown \in [Pages -> 0..MaxRuns]
  /\ DOMAIN lookup = Pages /\ DOMAIN lists = Pages
  /\ \A p \in Pages : DOMAIN lists[p] = 1..MaxRuns

(* A run is of a job there is, and every row of it is what the rule says    *)
(* under the run's own settings.                                            *)
RunsFollowTheRule ==
  \A n \in DOMAIN runs :
    /\ jobs[runs[n].job] # "ABSENT"
    /\ \A s \in runs[n].scores :
         s.task \in TasksOf(runs[n].job) /\ s = ScoreRow(s.task, runs[n].config)

(* Each request knows its job's status from before its run, and has a run   *)
(* of its own, which nobody sees until it is saved.                         *)
RunOfPost(c) == runs[post[c].run]

PostsInOrder ==
  \A c \in Clients :
    /\ post[c].step # "idle" => /\ post[c].status # "ABSENT" /\ jobs[JobOpen[c]] # "ABSENT"
                                /\ ~Partial(c) => jobs[JobOpen[c]] = post[c].status
    /\ post[c].step \in Writing =>
         /\ post[c].run \in DOMAIN runs
         /\ RunOfPost(c).job = JobOpen[c] /\ RunOfPost(c).claim = "none"
         /\ RunOfPost(c).saved <=> post[c].step = "saved"
         /\ post[c].step # "inserted" /\ ~Partial(c) =>
              {s.task : s \in RunOfPost(c).scores} = Enriched(JobOpen[c])
         /\ \A d \in Clients : post[d].step \in Writing /\ post[d].run = post[c].run => d = c

(* A page only knows of runs that are saved, and of each only its own tiers.*)
OwnTiers(n, rows) ==
  \A row \in rows : row.tier # "none" => row.tier = ScoreRow(row.task, runs[n].config).tier

PagesInOrder ==
  \A p \in Pages :
    /\ lookup[p] \cup {shown[p]} \subseteq Saved \cup {0}
    /\ \A n \in 1..MaxRuns : lists[p][n] # {} => n \in Saved /\ OwnTiers(n, lists[p][n])

(* An answer that calls a run complete stays right: no store of the job is, *)
(* or ever will be, enriched without a score in it, although the status it  *)
(* goes by was read before the metrics (scoring.routes.ts:39-47).           *)
PartialIsTruthful ==
  \A n \in DOMAIN runs : runs[n].claim = "complete" =>
    /\ jobs[runs[n].job] # "RUNNING"
    /\ {s.task : s \in runs[n].scores} = Enriched(runs[n].job)

(* Whatever the settings, no store is ranked below one it is at least as    *)
(* good as in every metric, one that clears every bar is LARGE, and scores  *)
(* at a cut-off belong to the higher tier (packages/shared/src/scoring.ts,  *)
(* lines 69-89).                                                            *)
RankedByMerit ==
  \A n \in Saved : \A r, s \in runs[n].scores :
    /\ AtLeastAsGood(MetricsOf[r.task], MetricsOf[s.task]) => TierRank(r.tier) >= TierRank(s.tier)
    /\ ClearedBars(MetricsOf[r.task], runs[n].config) = Metrics => r.tier = "LARGE"
    /\ r.score = runs[n].config.large => r.tier = "LARGE"
    /\ r.score = runs[n].config.medium => r.tier = "MEDIUM"

(* README: "The web app uses the same functions to mark which bars a store  *)
(* clears, so the dashboard and the stored tiers can't disagree": in the    *)
(* list of the run that is shown, each tier is what the bars marked under   *)
(* that run's settings add up to, whatever answers came late or out of      *)
(* order (ResultsPanel.tsx:97-110, 226-254).                                *)
MarksAgreeOnceLoaded ==
  \A p \in Pages : shown[p] # 0 =>
    LET config == runs[shown[p]].config
    IN \A row \in lists[p][shown[p]] : row.tier # "none" =>
         row.tier = TierFor(Total(Marked(p, row.task), config), config)

(* Every page of a run's list is a query of its own, at its own moment.     *)
(* Who turns the pages one after another skips no store: one that lies      *)
(* beyond a page stays beyond it, although stores without a score that are  *)
(* enriched meanwhile come in at the top and push the others back.  Once    *)
(* the job is over nothing moves any more, so that no store is seen twice,  *)
(* however many scores tie (scoring.repository.ts:184-201).                 *)
PagesSkipNothing ==
  [][\A n \in Saved : \A s \in Listings(n), r \in Listings(n)' : \A k \in 0..Len(s) :
       /\ Beyond(s, k) \subseteq Beyond(r, k)
       /\ jobs[runs[n].job] # "RUNNING" => OnPage(r, k) = OnPage(s, k)]_<<jobs, results, scoringVars>>

ScoringInv ==
  /\ ScoringTypeOK
  /\ RunsFollowTheRule
  /\ PostsInOrder
  /\ PagesInOrder
  /\ \A n \in DOMAIN runs : runs[n].claim # "none" => runs[n].saved
  /\ PartialIsTruthful
=============================================================================
