------------------------------ MODULE ModelTest ------------------------------
(***************************************************************************)
(* The model test dialog of the channels page (web/src/hooks/channels/     *)
(* useChannelsData.jsx, web/src/components/table/channels/modals/          *)
(* ModelTestModal.jsx): tests of single models, and batches that test all  *)
(* models of a channel a few at a time and that closing the dialog stops.  *)
(*                                                                         *)
(* A batch is an async function: it goes on after the dialog is closed, of *)
(* what stops it it reads only the ref `stop`, and every other value is    *)
(* the one of the render it was started in.  Of a test result only that    *)
(* there is one is kept; the model filter, the endpoint type, the response *)
(* time written to the row and the messages are left out.                  *)
(***************************************************************************)
EXTENDS Naturals, Sequences

CONSTANTS
  NChannels,         \* channels of the page
  NModels,           \* models of a channel
  ConcurrencyLimit,  \* tests of a batch at a time, 5 in the code
  MaxBatches,        \* bound: batches started
  MaxSingles         \* bound: single tests started

ASSUME TestAssumption ==
  /\ NChannels \in Nat /\ NModels \in Nat /\ ConcurrencyLimit \in Nat \ {0}
  /\ MaxBatches \in Nat /\ MaxSingles \in Nat

VARIABLES
  dialog,    \* the channel of the dialog, 0 when it is closed
  batching,  \* isBatchTesting
  stop,      \* shouldStopBatchTestingRef
  testing,   \* testingModels, by model only
  results,   \* modelTestResults: the models of each channel that have one
  tests,     \* the tests in flight
  batches,   \* the batches started: channel, models started, where they are
  singles    \* counter of the bound

testVars == <<dialog, batching, stop, testing, results, tests, batches, singles>>

TestChannels == 1..NChannels
TestModels == 1..NModels

Running(b) == b.st # "done"

\* Mutant: the chunk leaves its last model out.
ChunkShort(i) == {m \in TestModels : i < m /\ m < i + ConcurrencyLimit}

\* models.slice(i, i + concurrencyLimit).
Chunk(i) == {m \in TestModels : i < m /\ m <= i + ConcurrencyLimit}

\* The chunk of a batch: its tests run under the isBatchTesting of the render
\* that started the batch, which was false.
StartChunk(b, ch, i) ==
  /\ tests' = tests \cup {[by |-> b, ch |-> ch, model |-> m, seen |-> FALSE] : m \in Chunk(i)}
  /\ testing' = testing \cup Chunk(i)

\* The finally of a batch.
BatchOver(b) ==
  /\ batches' = [batches EXCEPT ![b].st = "done"]
  /\ batching' = FALSE

-----------------------------------------------------------------------------
OpenDialog(ch) ==
  /\ dialog = 0
  /\ dialog' = ch
  /\ UNCHANGED <<batching, stop, testing, results, tests, batches, singles>>

\* batchTestModels up to the tests of its first chunk.
BatchTestModels ==
  /\ dialog # 0
  /\ ~batching
  /\ Len(batches) < MaxBatches
  /\ batching' = TRUE
  /\ stop' = FALSE
  /\ results' = [results EXCEPT ![dialog] = {}]
  /\ batches' = Append(batches, [ch |-> dialog, next |-> ConcurrencyLimit, st |-> "tests"])
  /\ StartChunk(Len(batches) + 1, dialog, 0)
  /\ UNCHANGED <<dialog, singles>>

\* After Promise.allSettled: stopped, or a pause before the next chunk, or the
\* wait before the summary.
ChunkSettled(b) ==
  /\ batches[b].st = "tests"
  /\ \A t \in tests : t.by # b
  /\ IF stop
       THEN BatchOver(b)
       ELSE /\ batches' = [batches EXCEPT
                 ![b].st = IF batches[b].next < NModels THEN "pause" ELSE "summing"]
            /\ batching' = batching
  /\ UNCHANGED <<dialog, stop, testing, results, tests, singles>>

\* The head of the loop, 100 ms later.
NextChunk(b) ==
  /\ batches[b].st = "pause"
  /\ IF stop
       THEN /\ BatchOver(b)
            /\ UNCHANGED <<tests, testing>>
       ELSE /\ StartChunk(b, batches[b].ch, batches[b].next)
            /\ batches' = [batches EXCEPT ![b].st = "tests", ![b].next = @ + ConcurrencyLimit]
            /\ batching' = batching
  /\ UNCHANGED <<dialog, stop, results, singles>>

\* The summary, 300 ms after the last chunk, and the end.
Summarise(b) ==
  /\ batches[b].st = "summing"
  /\ BatchOver(b)
  /\ UNCHANGED <<dialog, stop, testing, results, tests, singles>>

\* testChannel from the button of a row.
TestOne(m) ==
  /\ dialog # 0
  /\ singles < MaxSingles
  /\ ~(stop /\ batching)
  /\ singles' = singles + 1
  /\ tests' = tests \cup {[by |-> 0, ch |-> dialog, model |-> m, seen |-> batching]}
  /\ testing' = testing \cup {m}
  /\ UNCHANGED <<dialog, batching, stop, results, batches>>

\* Mutant: the model is taken out of the set only after an answer.
TestFailsShown(t) ==
  /\ tests' = tests \ {t}
  /\ results' = [results EXCEPT ![t.ch] = @ \cup {t.model}]
  /\ UNCHANGED <<dialog, batching, stop, testing, batches, singles>>

\* testChannel: the call fails.
TestFails(t) ==
  /\ tests' = tests \ {t}
  /\ testing' = testing \ {t.model}
  /\ results' = [results EXCEPT ![t.ch] = @ \cup {t.model}]
  /\ UNCHANGED <<dialog, batching, stop, batches, singles>>

\* testChannel: the answer; a single test that was started while a batch ran
\* is forgotten if the batch was stopped meanwhile.
TestAnswered(t) ==
  /\ tests' = tests \ {t}
  /\ testing' = testing \ {t.model}
  /\ results' = IF stop /\ t.seen THEN results
                ELSE [results EXCEPT ![t.ch] = @ \cup {t.model}]
  /\ UNCHANGED <<dialog, batching, stop, batches, singles>>

HandleCloseModal ==
  /\ dialog # 0
  /\ dialog' = 0
  /\ stop' = (stop \/ batching)
  /\ batching' = FALSE
  /\ testing' = {}
  /\ UNCHANGED <<results, tests, batches, singles>>

-----------------------------------------------------------------------------
TestInit ==
  /\ dialog = 0 /\ batching = FALSE /\ stop = FALSE
  /\ testing = {} /\ tests = {} /\ batches = <<>> /\ singles = 0
  /\ results = [ch \in TestChannels |-> {}]

\* Tests are answered or fail, timers fire.
TestsGo ==
  \/ \E t \in tests : TestAnswered(t) \/ TestFails(t)
  \/ \E b \in DOMAIN batches : ChunkSettled(b) \/ NextChunk(b) \/ Summarise(b)

TestNext ==
  \/ \E ch \in TestChannels : OpenDialog(ch)
  \/ BatchTestModels
  \/ \E m \in TestModels : TestOne(m)
  \/ HandleCloseModal
  \/ TestsGo

TestSpec == TestInit /\ [][TestNext]_testVars /\ WF_testVars(TestsGo)

-----------------------------------------------------------------------------
(* Properties.                                                             *)

\* A model is shown as being tested only while a test of a model of that name
\* is in flight: no spinner of a row is left behind by a test that failed, was
\* stopped, or belongs to another channel.
ShownIsTested == testing \subseteq {t.model : t \in tests}

\* When a batch counts its results every model of its channel has one, unless
\* a later batch of the channel has cleared them: no model was skipped by the
\* chunks, and none whose test failed is missing.
SummaryComplete ==
  \A b \in DOMAIN batches :
    (batches[b].st = "summing" /\ \A c \in DOMAIN batches : c > b => batches[c].ch # batches[b].ch) =>
      results[batches[b].ch] = TestModels

\* Every batch ends, stopped or not, and the dialog does not stay in the state
\* of testing.
AllOver == ~batching /\ \A b \in DOMAIN batches : ~Running(batches[b])
=============================================================================
