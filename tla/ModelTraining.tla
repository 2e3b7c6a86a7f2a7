--------------------------- MODULE ModelTraining ---------------------------
(***************************************************************************)
(* The training of models and the use of their files: ml/data_collector.py,*)
(* ml/pipeline.py, ml/inference.py, and those who call them: the           *)
(* retraining thread of tasks.py and the two management commands.          *)
(*                                                                         *)
(* A training collects candles page by page from a feed that answers late, *)
(* prepares its rows, and exports a model file and then its metadata.      *)
(* Beside it, an analysis looks for the newest model of its market in the  *)
(* directory.  (The cache of inference.py is only ever reset: its one      *)
(* reader, the bot's cycle, raises a NameError before, at tasks.py:190.)   *)
(***************************************************************************)
EXTENDS TrainingData, Sequences

CONSTANTS
  Symbols,
  Underscored,  \* symbols with an underscore in their name, as R_75
  Order,        \* MARKET_SYMBOLS, the order in which all are trained
  Shipped,      \* the symbols of the models that are there at the start
  Now,          \* the newest candle
  Markets,      \* shapes of a market's history: candles, and those with bad prices
  TotalNeeded,  \* candles in the years that are asked for
  PageSize,     \* MAX_CANDLES_PER_REQUEST
  ChunkSize,    \* candles in a message of the feed
  MaxAttempts,  \* MAX_ATTEMPTS
  MaxMessages,  \* messages that are read in one attempt: 60
  MinRaw,       \* candles below which a training fails: 500
  MaxModels,    \* bound: model files
  NoSymbol,
  Scopes        \* bound: what a behaviour explores beside the normal course

ASSUME TrainingAssumption ==
  /\ Underscored \subseteq Symbols /\ NoSymbol \notin Symbols
  /\ Order \in Seq(Symbols) /\ Shipped \in Seq(Symbols)
  /\ \A m \in Markets : m.candles \subseteq 1..Now /\ m.bad \subseteq m.candles
  /\ \A x \in Scopes : x \subseteq {"late", "use"}
  /\ {Now, TotalNeeded, PageSize, ChunkSize, MaxAttempts, MaxMessages, MinRaw, MaxModels} \subseteq Nat \ {0}

VARIABLES
  market,   \* the history that the feed has
  run,      \* the training that runs, if any
  wire,     \* messages of the feed that have not been read
  rows,     \* the rows of the training
  files,    \* the exported models in the order of their time stamps
  reader,   \* an analysis that looks for a model
  scope     \* late: the feed is late or fails; use: somebody uses the models

vars == <<market, run, wire, rows, files, reader, scope>>

\* by: the thread that retrains, the command for one market, or the one for all.
\* end: candles before it are asked for.  count: the candles of the chunks, those
\* that came twice counted twice.  seen: messages of this attempt.  gaveUp:
\* history, the feed failed.
Idle == [pc |-> "idle", by |-> "retrain", todo |-> <<>>, end |-> 0, taken |-> 0,
         request |-> 0, attempt |-> 0, seen |-> 0, chunks |-> <<>>, count |-> 0, history |-> {}, gaveUp |-> FALSE]

Message == [request : Nat, error : BOOLEAN, candles : SUBSET (1..Now), more : BOOLEAN]
PCs     == {"idle", "next", "ask", "read", "page", "prepare", "train",
            "export", "dump", "describe", "metadata", "results"}
Run     == [pc : PCs,
            by : {"retrain", "one", "all"}, todo : Seq(Symbols), end : 0..(Now + 1), taken : Nat,
            request : Nat, attempt : Nat, seen : Nat, chunks : Seq(Message), count : Nat,
            history : SUBSET (1..Now), gaveUp : BOOLEAN]

NoRows  == [bars |-> 0, split |-> AssembleDataset(0), windows |-> {}]
NoModel == 0
Free    == [pc |-> "free", sym |-> NoSymbol, seen |-> 0, found |-> NoModel, floor |-> 0]

Dataset == [bars : Nat, split : [train : SUBSET Nat, val : SUBSET Nat, test : SUBSET Nat],
            windows : SUBSET [train : SUBSET Nat, test : SUBSET Nat]]
File    == [sym : Symbols, model : {"part", "whole"}, meta : {"none", "part", "whole"}]
Reader  == [pc : {"free", "describe", "load", "predict"}, sym : Symbols \cup {NoSymbol},
            seen : Nat, found : Nat, floor : Nat]

Sym         == Head(run.todo)
At(pc)      == run.pc = pc
Goto(pc)    == run' = [run EXCEPT !.pc = pc]
NextOne     == [Idle EXCEPT !.pc = "next", !.by = run.by, !.todo = Tail(run.todo)]
StoreStays  == UNCHANGED <<files, reader, scope>>

\* Files of a model that can be used, as far as their metadata tells.
Described(s, upTo) == {i \in 1..upTo : files[i].sym = s /\ files[i].meta = "whole"}
Newest(S)          == Max(S \cup {NoModel})

-----------------------------------------------------------------------------
(* Who trains what *)

\* The part of a file's name before its first underscore is compared.
ModelExists(s) == s \notin Underscored /\ \E i \in DOMAIN files : files[i].sym = s

Start ==
  /\ At("idle")
  /\ \/ \E by \in {"retrain", "all"} : run' = [Idle EXCEPT !.pc = "next", !.by = by, !.todo = Order]
     \/ \E s \in Symbols : run' = [Idle EXCEPT !.pc = "next", !.by = "one", !.todo = <<s>>]
  /\ UNCHANGED <<market, wire, rows>> /\ StoreStays

\* The thread passes over a market with too few outcomes or without a model, and
\* the command for all, when it is told so, over one that has a model.
Skip ==
  /\ At("next") /\ run.todo # <<>>
  /\ run.by = "retrain" \/ (run.by = "all" /\ ModelExists(Sym))
  /\ run' = NextOne
  /\ UNCHANGED <<market, wire, rows>> /\ StoreStays

Begin ==
  /\ At("next") /\ run.todo # <<>>
  /\ run.by = "retrain" => ModelExists(Sym)
  /\ run' = [run EXCEPT !.pc = "ask", !.end = Now + 1]
  /\ UNCHANGED <<market, wire, rows>> /\ StoreStays

AllDone ==
  /\ At("next") /\ run.todo = <<>>
  /\ run' = Idle
  /\ UNCHANGED <<market, wire, rows>> /\ StoreStays

\* An exception ends a training; who goes over all markets goes on.
Abandon ==
  /\ run' = IF run.by = "one" THEN Idle ELSE NextOne
  /\ wire' = <<>> /\ rows' = NoRows
  /\ UNCHANGED market

-----------------------------------------------------------------------------
(* _fetch_all *)

\* An answer comes in parts, the oldest candles first.
Rank(candles, c)  == Cardinality({d \in candles : d < c})
Parts(candles)    == Max({1, (Cardinality(candles) + ChunkSize - 1) \div ChunkSize})
Piece(candles, k) == {c \in candles : Rank(candles, c) \div ChunkSize = k - 1}

Answer(candles, request) ==
  [k \in 1..Parts(candles) |->
     [request |-> request, error |-> FALSE, candles |-> Piece(candles, k), more |-> k < Parts(candles)]]

Refusal(request) == [request |-> request, error |-> TRUE, candles |-> {}, more |-> FALSE]

\* What is asked for: the newest candles before the end, a page of them at most.
Before == {c \in market.candles : c < run.end}
LastOf(n) == {c \in Before : Cardinality({d \in Before : d > c}) < n}
Asked  == LastOf(Min({PageSize, TotalNeeded - run.taken}))

\* The feed answers in the order of the requests, with what is asked for, with an
\* error, or not at all.
Send(request) ==
  \/ wire' = wire \o Answer(Asked, request)
  \/ "late" \in scope /\ wire' \in {Append(wire, Refusal(request)), wire}

Ask ==
  /\ At("ask") /\ run.taken < TotalNeeded
  /\ run' = [run EXCEPT !.pc = "read", !.request = @ + 1, !.attempt = 1, !.seen = 0, !.chunks = <<>>, !.count = 0]
  /\ Send(run.request + 1)
  /\ UNCHANGED <<market, rows>> /\ StoreStays

\* A message is read: more of them are, if there is more to come and the attempt
\* has not read its last.
ReadsOn(more) == more /\ run.seen + 1 < MaxMessages
Seen(more)    == [run EXCEPT !.pc   = IF ReadsOn(more) THEN "read" ELSE "page",
                             !.seen = IF ReadsOn(more) THEN @ + 1 ELSE 0]

\* It is a part of the answer.
Receive(part) == [Seen(part.more) EXCEPT !.chunks = Append(@, part), !.count = @ + Cardinality(part.candles)]

\* Mutant: the number of the request is not looked at.
ReadAny ==
  /\ At("read") /\ wire # <<>>
  /\ wire' = Tail(wire)
  /\ run' = Receive(Head(wire))
  /\ UNCHANGED <<market, rows>> /\ StoreStays

\* Answers to earlier requests are passed over, but counted.  A request that is sent again
\* keeps its number, so that what was late counts as an answer to it.
Read ==
  /\ At("read") /\ wire # <<>>
  /\ wire' = Tail(wire)
  /\ run' = IF Head(wire).request = run.request THEN Receive(Head(wire)) ELSE Seen(TRUE)
  /\ UNCHANGED <<market, rows>> /\ StoreStays

\* No message in time: what came of the answer is dropped, and it is asked again.
ReadTimeout ==
  /\ "late" \in scope /\ At("read")
  /\ IF run.attempt < MaxAttempts
     THEN /\ run' = [run EXCEPT !.attempt = @ + 1, !.seen = 0, !.chunks = <<>>, !.count = 0]
          /\ Send(run.request)
     ELSE /\ run' = [run EXCEPT !.pc = "page", !.seen = 0, !.chunks = <<>>, !.count = 0]
          /\ UNCHANGED wire
  /\ UNCHANGED <<market, rows>> /\ StoreStays

Candles == UNION {run.chunks[k].candles : k \in DOMAIN run.chunks}

Collected(gaveUp) ==
  /\ run' = [run EXCEPT !.pc = "prepare", !.chunks = <<>>, !.count = 0, !.gaveUp = gaveUp]
  /\ wire' = <<>>
  /\ UNCHANGED <<market, rows>> /\ StoreStays

\* Nothing came, or an error after earlier pages; an error at first is raised;
\* the history has no more; or the page is added, and the next ends before it.
\* (The page's oldest candle lies before the end that was asked for, so that the
\* test for one that does not never ends the loop.)
NoPage    == At("page") /\ run.chunks = <<>> /\ Collected(TRUE)
ErrorPage == At("page") /\ run.chunks # <<>> /\ run.chunks[1].error /\ run.history # {} /\ Collected(TRUE)
LastPage  == At("page") /\ run.chunks # <<>> /\ ~ run.chunks[1].error /\ Candles = {} /\ Collected(FALSE)

Page ==
  /\ At("page") /\ Candles # {}
  /\ run' = [run EXCEPT !.pc = "ask", !.end = Min(run.chunks[1].candles), !.history = @ \cup Candles,
                         !.taken = @ + run.count, !.chunks = <<>>, !.count = 0]
  /\ UNCHANGED <<market, wire, rows>> /\ StoreStays

Enough == At("ask") /\ run.taken >= TotalNeeded /\ Collected(FALSE)

\* The connection ends, or the first answer is an error.
CollectFails ==
  /\ "late" \in scope
  /\ \/ run.pc \in {"ask", "read"}
     \/ At("page") /\ run.chunks # <<>> /\ run.chunks[1].error /\ run.history = {}
  /\ Abandon /\ StoreStays

-----------------------------------------------------------------------------
(* run_pipeline *)

Bars   == Cardinality(CleanOhlcv(run.history, market.bad))
Labels == Cardinality(Labelled(Bars))

Sufficient == run.taken >= MinRaw /\ Labels > 0 /\ Labels >= MinLabelled

\* Mutant: few labels are enough.
PrepareAny ==
  /\ At("prepare") /\ run.taken >= MinRaw /\ Labels > 0
  /\ rows' = [bars |-> Bars, split |-> AssembleDataset(Labels), windows |-> WalkForwardSplit(Labels)]
  /\ Goto("train")
  /\ UNCHANGED <<market, wire>> /\ StoreStays

\* Clean, label, split.
Prepare ==
  /\ At("prepare") /\ Sufficient
  /\ rows' = [bars |-> Bars, split |-> AssembleDataset(Labels), windows |-> WalkForwardSplit(Labels)]
  /\ Goto("train")
  /\ UNCHANGED <<market, wire>> /\ StoreStays

TooLittle == At("prepare") /\ ~ Sufficient /\ Abandon /\ StoreStays

\* The model is fitted and evaluated.
Train == At("train") /\ Goto("export") /\ UNCHANGED <<market, wire, rows>> /\ StoreStays

StoreOnly == UNCHANGED <<market, wire, rows, reader, scope>>

\* _export_model: the model's file is opened and written, and that of its ONNX
\* form, where there is one; then the metadata.  Any of it may raise.
OpenModel ==
  /\ At("export") /\ Len(files) < MaxModels
  /\ files' = Append(files, [sym |-> Sym, model |-> "part", meta |-> "none"])
  /\ Goto("dump") /\ StoreOnly

ThisModel == Len(files)

WriteModel ==
  /\ At("dump")
  /\ files' = [files EXCEPT ![ThisModel].model = "whole"]
  /\ Goto("describe") /\ StoreOnly

OpenMetadata ==
  /\ At("describe")
  /\ files' = [files EXCEPT ![ThisModel].meta = "part"]
  /\ Goto("metadata") /\ StoreOnly

WriteMetadata ==
  /\ At("metadata")
  /\ files' = [files EXCEPT ![ThisModel].meta = "whole"]
  /\ Goto("results") /\ StoreOnly

ExportFails ==
  /\ run.pc \in {"train", "dump", "describe", "metadata", "results"}
  /\ Abandon /\ StoreStays

\* pipeline_results.json is written.
Finish ==
  /\ At("results")
  /\ run' = NextOne
  /\ rows' = NoRows
  /\ UNCHANGED <<market, wire>> /\ StoreStays

-----------------------------------------------------------------------------
(* load_latest_model, called by an analysis *)

TrainingStays == UNCHANGED <<market, run, wire, rows, files, scope>>

\* A look begins with the list of the model files.
Look(s) ==
  /\ "use" \in scope
  /\ reader.pc = "free"
  /\ reader' = [pc |-> "describe", sym |-> s, seen |-> Len(files), found |-> NoModel,
                floor |-> Newest(Described(s, Len(files)))]
  /\ TrainingStays

\* Mutant: the name of the file tells the market, its metadata is not needed.
DescribeByName ==
  /\ reader.pc = "describe"
  /\ reader' = [reader EXCEPT !.pc = "load",
                  !.found = Newest({i \in 1..reader.seen : files[i].sym = reader.sym})]
  /\ TrainingStays

\* Mutant: the first that is of the market is taken.
DescribeFirst ==
  /\ reader.pc = "describe"
  /\ reader' = [reader EXCEPT !.pc = "load",
                  !.found = LET described == Described(reader.sym, reader.seen)
                            IN  IF described = {} THEN NoModel ELSE Min(described)]
  /\ TrainingStays

\* The metadata of each file is read: the last that is of the market is taken.
Describe ==
  /\ reader.pc = "describe"
  /\ reader' = [reader EXCEPT !.pc = "load", !.found = Newest(Described(reader.sym, reader.seen))]
  /\ TrainingStays

\* A file that is not whole cannot be loaded, and there is no model then.
Load ==
  /\ reader.pc = "load"
  /\ reader' = [reader EXCEPT !.pc = "predict",
                              !.found = IF @ # NoModel /\ files[@].model = "whole" THEN @ ELSE NoModel]
  /\ TrainingStays

Predict ==
  /\ reader.pc = "predict"
  /\ reader' = Free
  /\ TrainingStays

\* The server's process ends, with its thread; or the process of a command.
Restart ==
  /\ IF run.by = "retrain" THEN run' = Idle /\ wire' = <<>> /\ rows' = NoRows
                           ELSE UNCHANGED <<run, wire, rows>>
  /\ reader' = Free
  /\ UNCHANGED <<market, files, scope>>

KillCommand ==
  /\ ~ At("idle") /\ run.by # "retrain"
  /\ run' = Idle /\ wire' = <<>> /\ rows' = NoRows
  /\ UNCHANGED market /\ StoreStays

-----------------------------------------------------------------------------

Init ==
  /\ market \in Markets
  /\ run = Idle /\ wire = <<>> /\ rows = NoRows
  /\ files = [i \in DOMAIN Shipped |-> [sym |-> Shipped[i], model |-> "whole", meta |-> "whole"]]
  /\ reader = Free
  /\ scope \in Scopes

Collect == Ask \/ Read \/ ReadTimeout \/ NoPage \/ ErrorPage \/ LastPage \/ Page \/ Enough \/ CollectFails

Export == OpenModel \/ WriteModel \/ OpenMetadata \/ WriteMetadata \/ ExportFails \/ Finish

Training ==
  \/ Start \/ Skip \/ Begin \/ AllDone \/ Collect \/ Prepare \/ TooLittle \/ Train \/ Export

Use ==
  \/ \E s \in Symbols : Look(s)
  \/ Describe \/ Load \/ Predict

Next == Training \/ Use \/ Restart \/ KillCommand

Spec == Init /\ [][Next]_vars

-----------------------------------------------------------------------------
(* Properties *)

TypeOK ==
  /\ market \in Markets
  /\ run \in Run /\ (run.pc \notin {"idle", "next"} => run.todo # <<>>)
  /\ wire \in Seq(Message)
  /\ rows \in Dataset
  /\ files \in Seq(File)
  /\ reader \in Reader /\ {reader.seen, reader.found, reader.floor} \subseteq 0..Len(files)
  /\ scope \in Scopes

\* However late the feed answers, and whatever is asked twice, the collected
\* history has no hole, and is as long as was asked for, or as there is, unless
\* the feed failed. (_fetch_all)
HistoryWhole ==
  At("prepare") =>
    /\ run.history = {c \in market.candles : \E d \in run.history : d <= c}
    /\ run.gaveUp \/ run.taken >= TotalNeeded \/ run.history = market.candles
    /\ run.taken = Cardinality(run.history)

\* No model is tested on candles that it has learnt from, as rows or in their
\* labels, every label has its future, and in each window the training part
\* precedes the test part. (generate_labels, assemble_dataset, walk_forward_split)
ExamAfterLessons ==
  At("train") =>
    LET split == rows.split IN
    /\ split.test # {}
    /\ \A i \in split.train, j \in split.test : i < j /\ j \notin Sees(i)
    /\ \A i \in split.train \cup split.val \cup split.test : Sees(i) \subseteq 1..rows.bars
    /\ \A w \in rows.windows : \A i \in w.train, j \in w.test : i < j /\ j \in 1..rows.bars

\* What predicts is a whole model of the market, described by its own metadata,
\* whatever is being exported meanwhile or was left behind by an export that
\* failed. (load_latest_model, _export_model)
ServedWhole ==
  reader.pc = "predict" /\ reader.found # NoModel =>
    files[reader.found] = [sym |-> reader.sym, model |-> "whole", meta |-> "whole"]

\* An analysis predicts with a model no older than the newest that there was when
\* it began, whatever is exported or fails meanwhile. (load_latest_model)
NewestServed ==
  reader.pc = "predict" => reader.found >= reader.floor
=============================================================================
