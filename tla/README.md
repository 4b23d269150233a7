# A TLA+ verification of CausalData-Juicer

CausalData-Juicer turns recorded agent traces into *causal units*: a failed
episode, an edit of one of its steps, and the evidence that this edit turns the
failure into a success.  The evidence is executed.  The engine forks the
workspace that was recorded before the step, runs the recorded action again as a
determinism control, runs the edited one, repeats it n times, cuts the edit down
to its minimal part, and writes training data from what survived.  A unit's
*tier* says how strong its evidence is; everything the program claims rests on
tiers being earned, snapshots being what they say, and budgets counting what was
really run.

These modules model that engine from its source (`src/causal_data_juicer/`,
paths below are relative to it), check the models with TLC on small instances,
and prove the properties that matter most with TLAPS for all instances.

## Inventory

| Part | Source | State it keeps | Operations | What makes it correct |
|---|---|---|---|---|
| Evidence ladder, data model | `sdk/schemas.py` | tiers as integers spaced by ten, legacy positions in old files | `parse_tier`, `stamp_mutation`, ledgers | a stored tier is read as the tier that was meant; a ledger counts every branch |
| Paired replay | `replay/replayer.py`, `replay/sandbox.py` | the unit under construction, a `control_cache` per caller | `paired_replay`, `_run_branch`, `fork_at` | a tier rests on a control that reproduced and on runs that flipped; a memoized control changes no verdict |
| Parallel validation | `acquisition/parallel.py` | a pool, one `control_cache` per process | `validate_parallel` | agrees with the serial path; one raising candidate ends the batch, nothing hangs |
| Causal slicing | `slicing/ddmin.py`, `interventions/apply.py` | atoms, granularity, position | `ddmin`, `minimize_unit` | the recorded slice was itself replayed and is 1-minimal |
| Budgeted acquisition | `acquisition/engine.py`, `policies.py`, `budget.py` | pending candidates, memo, units, curve, what a policy has seen | `run`, `next`, `observe`, `exhausted` | the budget is overstepped by less than one candidate; the curve is the ledger; policies compete on the same bill |
| Candidate sources | `acquisition/screener.py`, `fixer.py`, `resample.py`, `ops/attribution_ops.py` | none | `screen`, `propose` | the same edit is proposed once per screening |
| Blob store | `store/blob.py` | `trees/<digest>`, `<digest>.meta.json` | `put_tree`, `restore_tree` | trees appear whole or not at all, and a restored tree is the recorded one |
| Collection | `runtime/collector.py` | a workspace, the episode's snapshots | `run_episode` | a snapshot is the workspace its step was about to change |
| Checkpoints | `store/dag.py` | snapshots of an episode | `at_step`, storage statistics | the nearest checkpoint is found |
| Runs on disk | `run_store.py`, `runtime/rundir.py`, `migrate.py` | four files and a blob store; a marker of ownership | `save`, `load`, `prepare_run_dir`, `migrate_run` | a run is read back as it was; a foreign directory is never cleared |
| Environments | `runtime/envs.py` | virtual environments with markers, pointers in workspaces | `ensure`, `resolve_python` | a replay runs in an environment that was built to its end |
| LLM cache | `runtime/llm.py` | one file per request, its age | `complete`, `clear` | a hit is an answer to that request; a broken entry does not stay |
| Maintenance | `maintenance/provenance.py`, `revalidate.py` | a unit's provenance and its claims about versions | `load_pooled_units`, `needs_revalidation`, `revalidate`, `run_version_event` | a version event re-runs what depends on it and demotes what no longer holds |
| Operators, recipes | `ops/*.py` | `OpContext`: episodes, sources, candidates, units, ledger, services | some 40 operators, in any order | only execution raises a tier; nothing is validated twice or lost |
| Counterfactual data augmentation | `ops/cda_ops.py` | mutation sites, branches, a selection posterior | site selection, do-mapping, filtering, promotion | no branch is lost between operators; the budget buys the most valuable clusters, each once, and the others are named or counted; an edit sets the variable it names |
| Export compilers | `compiler/*.py` | none | training views, TRL rows, regression cases | a row is a validated correction |
| Pipelines, CLI, reports | `pipeline*.py`, `cli.py`, `report.py`, `verify_claims.py` | none of their own | fixed sequences of the above | |
| Tools, verifiers, backends | `runtime/tools.py`, `verifier.py`, `exec_backend.py`, ... | none | subprocesses | |
| Workloads | `workloads/`, `store/bench.py` | none | fixture tasks | |
| Documentation site | `src/site/` | none | built HTML, vendored search scripts | |

**How they interact.**  A collector runs a policy in a workspace and puts the
workspace into the blob store before every tool call.  A source reads the failed
episodes and proposes candidates (episode, edit).  The replayer restores the
snapshot before the edited step into fresh workspaces and runs control, first
branch and reproductions; the calling loop keeps a `control_cache` keyed by
(episode, step) so that candidates of one fork point share a control.  The
acquisition engine wraps that in a policy and a budget and slices what is
REPRODUCIBLE.  Recipes pass one mutable `OpContext` from operator to operator;
operators that execute fetch the replayer from shared `services`.  Exports and
the run store read the context's units.  The only concurrency is between
processes: pool workers, and processes that share a store, a run directory, an
environment root or a cache directory.  They communicate through the file system.

**Where it is hard.**  Races of put and restore over one digest, crashes between
file operations, and handlers that take every `OSError` for a lost race.  A
memo that outlives the candidate it was measured for.  Verdicts that must not
depend on schedule, memo or early stopping although environments can be flaky.
Chunking with remainders in ddmin, whose oracle is not monotone.  A budget read
only between candidates.  Forty operators in any order over one mutable context
and one services table.  Files that are truncated and rewritten in place, and
markers that are looked at before they are trusted.  `PROJECT.json` lists
the hazards line by line with the properties that cover them; the uncovered ones say why.

## Modules

| Module | Models | Abstract state and actions |
|---|---|---|
| `EvidenceTiers` | `EvidenceTier`, `parse_tier` | the integers of the ladder; legacy values by position |
| `Certification` | what the ladder promises (abstract) | `Gate`, `Flip`, `Miss`; the tier is a function (`Earned`) of the trials |
| `PairedReplay` | `Replayer.paired_replay`, `validate_parallel` | one record per candidate (the unit), one cache per worker; `Begin*`, `ForkBranch`, `BranchRaises`, `FinishControl`, `FinishFirst`, `FinishRepro`, `MainRaises`; one step per branch run |
| `PairedReplayProofs` | | theorems on it, among them that it implements `Certification` |
| `Slicing` | `minimize_unit`, `ddmin` | one step per probe: `Start`, `Reduce` (adopt a complement), `Keep`, `Conclude`, `ProbeRaises` |
| `Acquisition` | `AcquisitionEngine.run`, the policies, `Budget` | one step per candidate: `Process`, `Return`, `ReplayRaises` |
| `SlicingProofs` | | theorems on `Slicing` and on `Acquisition`, the loop that pays for it |
| `BlobStore` | `put_tree`, `restore_tree`, `run_episode` as their caller | one step per observable file operation, `Crash` anywhere, refused renames, `Tamper`, `Meddle` |
| `BlobStoreProofs` | | theorems on it and on `ResponseCache`, the other store that processes share |
| `Lists` | what a comprehension with a condition keeps (`Picked`), positions in order (`PlacesIn`) | pure operators on sequences, by position |
| `ListProofs` | | lemmas on lists, on flattened lists, on finite sets of numbers and on ranks |
| `CandidateSources` | `Screener.screen`, `ops/attribution_ops.py` | pure operators from recorded traces to candidates |
| `CausalSites` | the mapper's sites, the strategies' edits, the filter's invariants | pure operators on traces; a text is lines of tokens and whether a line break ends it |
| `Generation` | the operators of `ops/cda_ops.py` | sites, branches, rejected ones, a selection; one action per operator, one step per cluster in the selector (`Request`, `Stop`, and `Promote`, which also reports) |
| `GenerationProofs` | | theorems on where branches are, on deduplication and on the selector |
| `Recipe` | `OpContext` and the operators of `ops/` | one action per operator; one step per candidate or unit in those that execute, `ReplayRaises` where one ends the recipe |
| `RecipeProofs` | | theorems on it, for recipes of any length |
| `RunDirectory` | `prepare_run_dir`, `RunStore.save` | the directories made so far, wherever they are by now; one process per invocation, one step per file operation (`Check`, `ReadId`, `Move`, `Mkdir`, `Mark`, `Fill`, `Put`, `Open`, `Write`), `Crash` anywhere |
| `RunDirectoryProofs` | | theorems on it and on `Maintenance`, what becomes of a stored run's units |
| `Environments` | `EnvManager.ensure`, `resolve_python`, pointers | interpreters, installed packages and markers; `Venv`, `Install` (one package), `CreateMarker`, `FillMarker`, `BuildFails`; `Resolve` is the fallback chain |
| `Migration` | `migrate_run`, with replays beside it (extends `Environments`) | the store, the four files, the migrator's locals; `Begin`, `Scan`, `Truncate`, `WritePointer`, `Rename`, `Load`, `Open`, `Close`, `Crash`, `Again`; `TakeSnapshot`, `Restore` |
| `MigrationProofs` | | theorems on the environments, the trees, the rows and the pointers |
| `ResponseCache` | `DiskCachedLLM` | files with what they parse to and their length, one position per process; one step per file operation, `Expire`, `Clear`, `Die` |
| `Maintenance` | `run_version_event`, `revalidate`, `needs_revalidation` | the stored claims, one pass at a time with its own pool and control cache; `BeginMode`, `Recheck`, `RecheckRaises` |

A module of proofs that serves two components extends both, so that their initial
predicates, next-state relations and specifications have names of their own:
`AcqSpec`, `CacheSpec`, `EventSpec`.

How the models compose: `PairedReplay` has everything inside one paired replay.
`Acquisition` and `Recipe` take its result as one step (`PairedUnit`, `Runs`),
in worlds where a candidate's n runs agree; the theorem that a
tier then is a function of the world alone (`ParallelIsSerial`) is what
justifies that step.  `Slicing` likewise stands behind the `Probes` of
`Acquisition` and the one-probe confirmation of atomic edits in `Recipe`.
`BlobStore` stands behind `Restores`: a tree that was put is there and is whole.
`Generation` hands its candidates to the paired replay of `Recipe`, of which it
keeps one step: every candidate is answered by a unit, and the tools become those
of the registry.  `Migration` runs the replays' side of `Environments` beside the
migrator, over one store.  `Maintenance` takes one paired replay with early
stopping as a step, in deterministic environments (again `ParallelIsSerial`).
`RunDirectory` stands behind the run that `Migration` starts from: four whole
files of one run, with their trees.

The world under test (what a control shows, what a run ends in, which part of
an edit flips) is chosen in the initial state, so every world is explored,
flaky and non-monotone ones included.

### Reading the models

* `PairedReplay.unit[c]` is the `CausalUnit`; `original_replay_match` is the
  control's verdict or "none".  `tried` are the locals of the reproduction loop,
  `paid` is a history variable.  A worker is a process: the serial callers have
  one.  `aborted` is an exception that reached the caller.
* `Slicing.atoms`, `n`, `i` are the locals of `ddmin`; `Complement` cuts chunks
  of `len // n`, the last one short or an extra one, as the code does.  The
  oracle maps *sets* of atoms to possible outcomes: a set with both outcomes is
  flaky.
* `BlobStore.put[c].pc` walks through `put_tree`: digest, look, copy aside,
  rename tree, rename metadata.  A digest is a name for a tree (collision-free);
  v1 names are legacy directories that are only read.
* `Recipe.no` numbers proposals; it exists in the model only, to say that a
  proposal is answered once.  `executed` counts branches whoever is charged.
* `Generation.sel` is the locals of the selector's loop.  `discarded` exists in
  the model only: the branches an operator gave up, a filter that does not keep
  what it rejects or a deduplicator.  A cluster is named by the position of its
  first branch.  Values are whole: `Worth` is chosen so that every quotient is.
  Every strategy has the same `Worth`, because the flip rates the selector reads
  (`services["strategy_outcomes"]`) are written nowhere in the repository.
* `RunDirectory.dirs` are directories, not paths: a process that names `--out`
  meets whatever is there by then, and a file that is open stays with its
  directory when that is moved.  `overlapped` is a history variable.
* `Migration.stored` maps the name of a tree's directory to the tree in it, so
  that a name and its tree may disagree while a pointer is rewritten.  Names are
  digests, v2 or of the old kind, and digests are injective.  A pointer is what
  decides anything about it: the environment in its path, whether it is named,
  whether the path is one of this machine.
* `ResponseCache.file[k].size` is there because two processes that both missed
  write at the start of the same file: the longer answer sticks out behind the
  shorter one.  A key is the request (digests are injective).  `linked` says
  whose open file `clear` or an expiry has not unlinked; `met` is a history
  variable.
* `Maintenance.Units` gives each stored unit the episode it was made on and its
  edit; `Home` is the episode it is loaded onto.  `Consistent` says that a unit
  made on the episode it is loaded onto held there under the version it claims;
  one stored before claims existed is taken to be from `Today`'s environment,
  which is what `enrich_dependency_claims` writes into it.
* Lists that the code builds by a comprehension with a condition are given by the
  positions kept (`Picked`), and a running set or a running block by what is seen
  before a position (`Generation.Seen`, `CausalSites.Blocks`), where the code has
  a loop: that form can be reasoned about, and TLC has compared it with the loops
  on all short inputs.
* `Recipe.store` is which run's blobs `services["blobs"]` is, `built` whether
  `engine_services` has made the replayer.  A replay needs a snapshot of its own
  target step (`Snapshotted`), that snapshot's tree in the blobs it restores from
  (`Restores`), and an edit and a tool that work (`Unappliable` are the candidates
  whose branch raises); `Completes` is all of it, and what does not complete ends
  the recipe.  The loaded run is another directory than the recipe's, and a tree is
  taken to be in the run that collected it and not in both.  `CasePasses` is
  `replay_regression_case` with the blobs it restores from.
* `Generation.report` is what the selector writes into `ctx.meta`, of the skipped
  clusters the first `SkippedShown` (20 in the code) and a count.
* `Migration.cut` is a history variable: the directories whose pointer a death left
  empty.

## Runs

| Run | Bound | Shows |
|---|---|---|
| `paired_replay` | 2 candidates on 3 fork points (failed, successful, no snapshot; shared or not), 2 workers, the 4 calling modes in the repository, n = 3, one fork point where branches raise, all worlds | tiers are earned (`TierEarnedByReplay`), early stopping changes no verdict, controls are shared, the price of a verdict, agreement of parallel and serial, refinement of `Certification`, and that every batch ends |
| `slicing` | all deterministic oracles on 3 atoms, a family on 4 and 5, flaky ones, atomic edits | `MinimalIsRevalidated`, `OneMinimal`, `ProbesBounded` |
| `acquisition` | 4 candidates of 3 episodes, 3 policies, replay, time and no budget, 3 gate worlds, n = 2 | overstep below one candidate, breadth first, policy-independent bill |
| `blob_store` | 2 collectors and 2 readers (any three at work), trees over 2 paths, 1 mishap, crashes anywhere | whole trees, faithful snapshots and restores, metadata after its tree, stored trees stay |
| `recipe` | recipes of up to 5 operators, 4 episodes (failing, passing, loaded, imported), up to 3 candidates and 3 units, 2 worlds; one fix for a step the episode has not, one that names a tool nobody registered | exported and saved cases pass the regression replay, evidence costs replays, each proposal answered once and none lost, deduplication loses no correction |
| `generation` | sequences of up to 5 operators on two trajectories with every kind of site, a blank context block, an unregistered tool; up to 5 branches, budget 3, both modes, a report that names 1 skipped cluster | no branch lost or doubled, books and report of the selector, greedy choice, deduplication before the filter costs no hypothesis |
| `run_directory` | 3 invocations with one `--out`, at most two alive at a time (`TwoAtOnce`), with or without a directory of the user's, crashes anywhere | a saved run is kept whole, at `--out` or in the trash; no directory mixes two runs; refusals have a reason |
| `migration` | one migrator, run again as often as it likes, 2 workers, 2 environments, 3 snapshots and a final tree (without a pointer, stale, stale in an old-style tree, another machine's), 1 mishap | replays run in built environments, migrated rows restore their own trees, no tree is lost and an environment only to a death within the rewriting of its pointer, upgraded pointers lead to built environments |
| `response_cache` | 2 processes, 2 requests that differ in parameters only, answers of length 1 and 2, with and without ttl, crashes anywhere | hits are answers to the request; only entries on which processes met, or one died, make `complete` raise; with a ttl torn entries heal |
| `maintenance` | one event, 2 families, 2 versions, a task tried twice, 4 units with every claim (current, stale, missing, not validated), n = 2, all deterministic worlds | the selective pass demotes what the full one does among native units, for no more replays; what it keeps holds today |
| `exports_are_corrections`, `selective_misses_nothing` | as `recipe` and `maintenance` | the findings below |

**Why the bounds are enough.**  Two candidates and two workers give every
relation the replayer has (same or other fork point, same or other process);
n = 3 gives a first, a middle and a last reproduction run.  Three atoms give a
short chunk only through n = 2, so four and five atoms are added for uneven
cuts at finer granularity.  Four candidates of three episodes
give the policies an episode with a second candidate and a family with a second
episode.  Three processes over one digest give a writer, a racing writer and a
reader.  Five operators reach from an empty context through collecting,
proposing, validating and one shaping or re-checking operator to an export; the
operators' own state does not survive them, so longer recipes repeat what
shorter ones do; loading a run, a source, screening, validating and saving are
five, so that a loaded unit is saved.  In `Generation` five operators are the
documented pipeline from sites to an executed unit that is reconnected, or two rounds of generating
with a filter or a deduplicator between; five branches give clusters of two beside
single ones, and more clusters than a budget of three pays for; the report names one
skipped cluster instead of twenty, so that there are some it only counts.  In `RunDirectory` a
third invocation is what meets the leavings of two that overlapped.  One mishap
in `Migration` puts a death at every step of the migrator or of a build; two
workers give one that builds and one that builds too or runs in what is there.
Two answers of different lengths are what a mixed entry needs.  In
`Maintenance` an edit at a step that the later try has not, and edits of both
tries at one step, are what remapping can go wrong on; two versions give a
change and a claim from before it.  Every property has a mutant of the modelled code that
violates it under these bounds (`PROJECT.json`, "mutants").

**Fairness.**  There are two liveness properties.  `BatchEnds` assumes weak
fairness of each worker beginning a candidate it may begin, of each branch run
going on, and of the main process raising what a worker reported.  The code
justifies it: a worker does nothing but validate, every tool and verifier run
has a timeout, and `pool.map` consumes results.  `TornEntriesHeal` assumes weak
fairness of a process inside `complete` going on (a few file operations and a
request with a timeout) and of time passing (`Expire`); nobody has to ask, fail,
clear or die, and a process that dies is excused.  No strong fairness is used,
and nothing is assumed about which candidate a worker takes first.

Deadlock checking is off where the system is meant to stop: a batch, a slice, an
acquisition, a recipe, a version event return, and processes of a store or of a
run directory end or die.

## Findings

1. `exports_are_corrections`: `stress_probe` stamps COUNTERFACTUAL_VALIDATED
   whatever it saw (`ops/engine_ops.py:151`), and the export views write such units
   as corrections (`compiler/exports.py:3`).
2. `selective_misses_nothing`: `load_pooled_units` keeps one episode per task
   (`maintenance/revalidate.py:41`) and loads the units of the task's other tries
   onto it.  A unit of a family the event does not touch keeps a claim that is
   current, so the selective pass does not look at it; the full pass replays it on
   an episode it was never validated on and demotes it, or raises when that episode
   is too short.  `revalidate.py:19-21` says that selective must not miss any
   demotion that full finds.  What does hold is `PassesAgree`: they agree on the
   units made on the episode they are loaded onto.

Met while modelling, with no run of their own.  Where the documentation says more
than the code does:

* `budget.py:3` calls a budget a hard ceiling; the engine reads it only between
  candidates, so the last one may carry the spend past it.  What holds is
  `OverstepIsLastCandidate`.
* `policies.py:12-13` says the adaptive policy puts episodes without a validated
  unit first; the code tracks episodes *attempted*.  What holds is `BreadthFirst`.
* `run_store.py:3` calls a run directory self-contained and re-executable.  `save`
  writes rows and copies no trees, so that a loaded episode is saved without them.
  `paired_replay_parallel` can validate a unit of it on the loaded run's blobs
  (`ops/ops_zoo.py:63`, `ops/engine_ops.py:107-110`), and the case that `save_run`
  stores raises where it is stored.  What holds is `ExportedCasesReplay`: the unit of
  an episode collected here passes there, one of a loaded episode on the loaded
  run's blobs.
* `fix_table`, `fixer_llm` and `resample` take any `target_step`
  (`ops/engine_ops.py:43`), any tool and any edit.  A step without a snapshot
  (`replay/replayer.py:148-154`), a tool that is not registered
  (`runtime/tools.py:40-57`) or `patch_lines` on what is no string
  (`interventions/apply.py:30`) raises and ends the recipe, collected episodes
  included; `paired_replay_parallel` then hands over none of the units it had.
* The selector says that branches without a replay are "recorded, not silently
  dropped" (`ops/cda_ops.py:598-599`).  Its report names the first twenty skipped
  clusters (`skipped[:20]`, line 718) and gives the number of all; which the others
  were is not kept.  `SelectionAccounts` says just that.
* `put_tree` takes every `OSError` of its renames for a lost race
  (`store/blob.py:132`) and returns a digest that may not be stored.
* `load_run` installs the loaded run's blobs for replays (`ops/ops_zoo.py:63`);
  `engine_services` replaces them (`ops/base_op.py:117`), and replays of loaded
  episodes raise.
* `mask_edit` is to blank a site's value (`ops/cda_ops.py:239`); a line of reasoning
  is edited as if it were a field, so that it stays and a separator is added
  behind it (`ops/cda_ops.py:395-398`).
* The static selector also lists clusters it has requested as skipped
  (`ops/cda_ops.py:684`); its sequential mode never re-scores from what was observed,
  since nothing is observed while it runs (lines 593-596); the filter documents one
  order of its hard constraints and applies another (lines 427-431,
  `ValidationVector.HARD`); a text span is numbered among all blocks and dropped
  among the blocks that are not blank (lines 179 and 211).

Where a crash or company at the wrong moment is not repaired:

* Two overlapping invocations with one `--out`: the later one moves the earlier
  one's directory away while it is at work, and the earlier one's later files and
  trees go to the later one's directory.  Neither run is whole afterwards; hence the
  exemptions of `SavedRunsSurvive` and `OneRunPerDirectory`.
* A process that dies between `mkdir` and the marker, or within the marker, leaves
  a directory that no later invocation clears (`RefusalsAreExplained` names it).
* `migrate_run` that dies between emptying a pointer and writing it (`migrate.py:55`)
  loses what the pointer said: the tree's files stay, its environment is gone, and
  every later migration raises when it reads the pointer (`migrate.py:45`), so that
  the run is never migrated again.  `TreesAreKept` allows one such tree for each
  death and no other loss.
* One that dies between rewriting a pointer and saving the rows leaves rows that name a
  tree under its old digest; running it again does not repair that, because the
  rewritten tree is then skipped as valid.  One that dies while a `.jsonl` file is
  empty, and is run again, loads no rows from it and saves none.  Neither is a
  state `MigratedRunRestores` speaks of: it is about migrations that nothing kills.
* An environment whose build failed keeps its interpreter, and `resolve_python` uses
  it from then on without building again (`RunsInBuiltEnv` names the case); a marker
  left empty makes `_env_identity` and `provenance` raise.
* A torn cache entry makes every later `complete` of that request raise when there
  is no ttl, until somebody clears the cache.
* With `n_repro = 0`, `revalidate` counts one flip against no run and demotes.

## Proofs

Forty-two theorems, checked by TLAPS from the definitions, with these assumptions
only: the named `ASSUME`s of the modules (types of the constants; for `BlobStore`
that distinct trees have distinct digests, which is the hash's
collision-freeness; that legacy names are not v2 names; what each proof uses of
them is cited where it is used).  TLC evaluates them on every run.  One theorem
has a hypothesis of its own, `NRepro # 0` (`SelectiveIsEnough`).  Every safety
property of the passing runs is a theorem.

*PairedReplay.*  `IInv` adds to the type invariant that a worker runs one
candidate at a time, that each cached control was measured by a candidate of that
worker on that fork point (and conversely, a paying candidate's control is
cached), that the gate a candidate met is the one its worker's cache holds, and
that the tier is `Earned` by the loop's own counters, which count the flips of
the runs made.  `TierEarnedByReplay` is not inductive by itself: with a memo
the control behind a tier was run for another candidate, and only `CacheInv`
says by whom.  From `IInv` follow `TiersAreEarned`, `EarlyStopIsSafe`,
`ParallelIsSerial`, `VerdictsHaveTheirPrice`; with `PaidOnce` `ControlIsShared`;
and every step maps to a `Certification` step or a stutter
(`ReplayImplementsCertification`).

*Slicing.*  `SliceInv`: while ddmin passes over the chunks, every complement
tried so far may miss; at the finest granularity the complements are the
single-atom removals (`FinestComplement`), so when the pass ends each of them
was tried on the *current* atoms.  That gives `SlicesAreOneMinimal` for any
number of atoms and any oracle, monotone or not.  `CostInv` bounds the replays: twice
those made, and what may still be `Owed`, stay within twice the square of the
number of atoms.  The worst case takes the atoms away one by one, each by
the last complement of its round, and passes over the finer granularities once.

*Acquisition.*  `AcqInv`, for any candidates, policy, budget and world: the
budget was read before each candidate, and the last point of the curve is the unit
appended last (`PaidFor`), which gives `OverstepIsBounded`; every candidate is
pending or has its unit, the adaptive policy has attempted exactly the episodes
that have a unit, and once some episode has two units every episode has one
(`Served`), which gives `EverybodyIsServedFirst`.  `BreadthFirst` is not inductive:
that an episode is served says nothing of what the policy remembers.  `Billed`: at
any moment what has been spent is the bill of the candidates done so far, which
gives `BillsAgree`.  The total of the work is the number of pairs of a candidate and
one of its runs (`WorkOf`), so that it is a cardinality and not a fold.

*BlobStore.*  `IInv`: a collector past its digest knows the tree it is putting;
while nobody disturbs it, what is copied so far agrees with it; past the rename
the digest is present or was refused; a destination has one reader.  From it the
five invariants and `StoredTreesStay`, for any processes, trees and crashes.

*ResponseCache.*  `CacheInv`: every entry that parses, and every answer a process
holds, was given to its own request; and on a key where nobody has met
anybody, whoever is inside `complete` is alone, finds the entry it looked at, and
writes into an empty file of its own (`Unmet`).  `OnlyMetEntriesRaise` is not
inductive without `Unmet`: that an entry is torn or gone when it is read was
decided by what another process did before.  It gives `HitsAreSound` and
`RaisesNeedMeetings`.  That the key is injective in the request is the one fact
about digests used.

*Recipe.*  `RecipeInv`, for recipes of any length in any order over any episodes,
traces and sources: besides the types, what an operator works on is still there
(`AtWork`); a unit, exported or not, says of its intervention what a replay of it
would show again, and one that was replayed has a snapshot of its step, an edit that
applies, and its tree in the blobs of the run it is of (`Honest`); a number is once
among the units and the running batch, and not at all while its candidate waits
(`Counted`).  The proof goes by the shapes of steps (`StepShapes`: proposing,
beginning, answering a candidate, skipping, ending, rewriting a unit, shaping,
exporting, collecting), of which the forty operators are instances.  It gives
`CasesReplay`, `OneAnswerEach`, and the action properties `ProposalsStay`,
`TiersArePaidFor` and `DedupeIsSafe`.  `CasesReplay` needs of the restore that an
operator which replayed completed on blobs it had (`CompletedReplays`): the recipe's
own, or, in `paired_replay_parallel`, whatever is among the services.
`ProposalsStay` looks at each shape: a proposal leaves the waiting for its unit
(`SameProposal`), a rewritten unit answers the same one, and an operator that ends
clears only candidates it has gone through.  That a deduplicated list has the
corrections of the whole one needs `Honest`: of two units with one signature the
first is kept, and it is validated if the other is only because both are as their
replay would say.

*Generation.*  `IInv` types the selector's record and adds `SkippedAtTheEnd`:
nothing is skipped while anything is pending, which `Stop` needs because it
overwrites what is skipped.  `Reported`: the report of a finished selection names and
counts its own skipped clusters.  `SelectionIsAccounted`, for both modes, follows by a
count (`UnnamedAreCounted`): the clusters before a skipped one that is not named
are at least `SkippedShown`, each worth as much, and so are the named ones.
`Placed`: branches, rejected and discarded ones are apart and are all that were
made, in lists without repetition, and sites have whole scores; each operator is
shown to split or join lists so.  It gives `BranchesAreKept`, and `DedupIsLossless`:
branches with one signature that declare a target fail alike, so that the
experiments a filter would accept are the signatures of the branches that do not
fail, before deduplication and after it.  `Greedy`: whatever was requested was worth
no less than what is left at that moment, and what is left out was left for its price
or for the end of the budget.  It rests on the values being whole, hence on clusters
having members, and gives `SelectionTakesTheBest`.

*RunDirectory.*  `IInv`, for any number of invocations at once where the run
allows two: no two directories are in one place (`Apart`); beside a process that
has not overlapped nobody is at work (`Alone`), so the directory at `--out` is
its own and holds what it has written (`Owning`); and once it is done, whoever
comes later has either not got past moving that directory away, or the directory
is no longer at `--out` and nobody has a file of it open (`Safe`).
`SavedRunsSurvive` says where the saved files are and not who may still write
there, so it is not inductive; `Theirs` is `OneRunPerDirectory` file by file.
From it `SavedRunsAreSafe` and `DirectoriesHoldOneRun`.  `JInv` follows the
markers: each directory has the marker its maker has got to (`Labels`), the place in
the trash that an undisturbed process would move to is free (`TrashIsFree`), what it
has read at `--out` is what is there (`Sees`), and who was refused saw a reason that
stays (`Refused`).  It gives `RefusalsAreJustified`.

*Maintenance.*  `RvInv`, for any corpus, change and deterministic world: the control
cache of a pass holds what the controls show (`Looked`); of the units looked at so
far the report says what the world says, and its bill is the fork points met plus
the runs (`Reported`, `Books`).  A pass loads each target once, which is a fact
about ranks: a target's place is the number of targets before it.  Since the bill is
monotone in the set of targets and what the selective pass leaves out would hold
(`UntouchedHold`), it gives `SelectiveIsEnough` and `KeptUnitsHold`.  With
`n_repro = 0` the first is false, because `revalidate` demotes what it looks at.

*Migration.*  `IInv`: every marker tells the truth, those about to be written
included (`MarkersHold`), and an interpreter without its packages is somebody's
work or somebody's failure (`NothingHalfBuilt`).  It gives
`ReplaysRunInBuiltEnvs`: `RunsInBuiltEnv` alone says nothing of the environments
nobody runs in yet, which `resolve_python` may pick next.  For the trees, `KInv`:
each row's tree is in the store, or it is there with a torn pointer and, while the
migrator is about to write that pointer, it remembers the tree's own environment
(`Kept`); and what is about to be written was read from a whole pointer of a tree
that is still there (`Handling`).  `CInv`: a torn pointer is one that a migrator holds
(`Held`) or one that a death has cut, and no death cuts two.  Together
`NoTreeIsLost` (`KeptUnlessCut`).  `TreesAreKept` alone allows a migrator to forget the
environment of a tree it has not yet emptied the pointer of.  `UInv`
(`UpgradesAreBuilt`): what a migrator knows of an environment was read from the
environment's own marker or was built by it, so that a pointer of the new kind,
written or about to be, asks for one that was built to its end.  `RInv`
(`MigrationsRestore`): as long as nothing has died, each file is whole or is being
written from rows that are whole, and the migrator's map leads from each name it
has changed to the name the tree has now (`Staged`).  The theorems assume one
migrator at a time, as the model does.

*Lists.*  `Picked` and `PlacesIn` list the chosen positions in order; by a
cardinality argument (`Ranks`) each is there once.  `FlattenSeq` is recursive;
what the proofs need of it (types, ranges, distinctness) is shown
by a least counterexample, `WFMin` of the library's well-founded induction, whose
parameters are sets and not operators.

**Only model-checked:** `BatchEnds` and `TornEntriesHeal`, since liveness is out of the
prover's reach.  The library's lemmas about folds and about `SelectSeq` take an
operator as a parameter, which the provers cannot instantiate; no definition that a
theorem is about uses them.  That edits set the variable they name is part of the
model (`CausalSites.SetField` and its like) and no property of a run.

## Not modelled, and why

* Reactive continuation of a branch by a live policy (`_run_branch` with a
  `reactive_policy`): the loop is bounded by the policy alone.
* What tools, verifiers, backends and LLMs do: they are the worlds.
* Rendering of rows, reports, prompts; the CLI; path containment; fixtures.
* `prepare_run_dir`'s refusals of `/`, the home directory and symlinks: they look at
  a path, not at a state.  Run ids are unique.
* Two migrations of one run at once (`MigrationAssumption`): nothing says what they
  should do, and the second would save rows that the first has re-pointed.
  `migrate_run` does not rename a tree's `.meta.json`; no code reads it.
* A sequence of version events: `run_version_event` saves nothing, so that each
  event starts from the same stored units.  Flaky environments are left to
  `PairedReplay`.
* Workspace lifetimes: `prep` may raise before the `try` that disposes the
  workspace (`replay/replayer.py:58`), which leaves a scratch directory behind.
* The documentation site (`src/site/`): built HTML whose only programs are vendored
  search scripts, among them two word segmenters (`lunr/wordcut.js`,
  `lunr/tinyseg.js`).  They are not this program's logic, and no part of the engine
  calls them, so that a model of them would say nothing about it.
* `Recipe` takes paired replay, slicing and restore as single steps, and applies
  edits of one atom, so that `minimize` is one probe there.

## Plan

Done, in the order of what matters most: `PairedReplay` with `Certification`;
`Slicing`; `BlobStore`; `Acquisition`; `Recipe` with `CandidateSources`;
`Generation` with `CausalSites`; `RunDirectory`; `Migration` with `Environments`;
`ResponseCache`; `Maintenance`.

Left:

1. Sparse checkpoints: `fork_at` and the choice of the nearest snapshot
   (`store/dag.py`).
2. The observational exports and the operators that tabulate.
