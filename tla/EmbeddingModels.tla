--------------------------- MODULE EmbeddingModels --------------------------
(***************************************************************************)
(* Which embedding model a process has, and the model that runs in a child *)
(* process.                                                                *)
(***************************************************************************)
EXTENDS Integers, Sequences, FiniteSets, FiniteSetsExt

(***************************************************************************)
(* Which embedding model a process starts with, as a function of its       *)
(* environment and of the files in the model directories.  A file is       *)
(* absent, good, altered (it loads but is not the pinned one) or broken.   *)
(***************************************************************************)

VARIABLES embedEnv, modelDirs
selectionVars == <<embedEnv, modelDirs>>

File == {"absent", "good", "altered", "broken"}
ModelDir == [quantized : File, plain : File, tokenizer : File]
Spare == {[quantized |-> "absent", plain |-> f, tokenizer |-> f] : f \in {"absent", "good", "altered"}}

SelectionInit ==
  /\ embedEnv \in [tier : {"Developer", "Growth", "Enterprise"}, mode : {"Local", "Hybrid", "ApiOnly"},
                   production : BOOLEAN, standalone : BOOLEAN, remote : BOOLEAN, pinned : BOOLEAN]
  /\ modelDirs \in {<<d, s>> : d \in ModelDir, s \in Spare}

SelectionNext == UNCHANGED selectionVars

\* Only a pinned digest is compared, and then must match.
verify_checksum(f) == embedEnv.pinned => f = "good"

\* OnnxModel::load: both checksums, then the session, then the tokenizer.
load(model, tokenizer) ==
  /\ verify_checksum(model) /\ verify_checksum(tokenizer)
  /\ model # "broken" /\ tokenizer # "broken"

\* A quantized model is preferred to the plain one, even one that cannot be loaded.
model_path(d) == IF d.quantized # "absent" THEN d.quantized ELSE d.plain

from_dir(d) ==
  /\ model_path(d) # "absent" /\ d.tokenizer # "absent"
  /\ load(model_path(d), d.tokenizer)

\* The first directory that loads, or 0.
first_dir(usable) == Min(usable)
load_from_disk ==
  LET usable == {i \in DOMAIN modelDirs : from_dir(modelDirs[i])} IN
    IF usable = {} THEN 0 ELSE first_dir(usable)

Local == [kind |-> "Local", dir |-> load_from_disk]
HashModel == [kind |-> "Hash", dir |-> 0]
Remote == [kind |-> "Remote", dir |-> 0]
Panic == [kind |-> "panic", dir |-> 0]

local_required == IF load_from_disk # 0 THEN Local ELSE Panic

panics_in_production == embedEnv.production
local_or_hash ==
  IF load_from_disk # 0 THEN Local ELSE IF panics_in_production THEN Panic ELSE HashModel

standalone_or_hash == IF load_from_disk # 0 THEN Local ELSE HashModel

select_local_embedding_kind ==
  IF embedEnv.tier = "Developer" THEN HashModel
  ELSE CASE embedEnv.mode = "Local" -> local_required
         [] embedEnv.mode = "Hybrid" -> local_or_hash
         [] embedEnv.mode = "ApiOnly" -> HashModel

\* build_embed_pipeline; the standalone profile has a choice of its own.
pipeline_model ==
  IF embedEnv.standalone THEN standalone_or_hash
  ELSE IF embedEnv.remote THEN Remote ELSE select_local_embedding_kind

\* The cognitive monitor and its detector choose for themselves in any profile.
cognitive_model == select_local_embedding_kind

models == {pipeline_model, cognitive_model}
starts == Panic \notin models

---------------------------------------------------------------------------
(* Properties. *)

\* A process that starts in production has the non-semantic model only where
\* it was asked for: by the developer tier, the api_only mode or, for the
\* pipeline, the standalone profile.
NoSilentDowngrade ==
  starts /\ embedEnv.production =>
    /\ cognitive_model = HashModel => embedEnv.tier = "Developer" \/ embedEnv.mode = "ApiOnly"
    /\ pipeline_model = HashModel =>
         embedEnv.standalone \/ embedEnv.tier = "Developer" \/ embedEnv.mode = "ApiOnly"

\* A semantic model is loaded from files that match the pinned digests, from
\* the first directory that holds such a model, and start-up is refused only
\* when no directory does.
PinnedModelServed ==
  LET fit == IF embedEnv.pinned THEN {"good"} ELSE {"good", "altered"}
      sound(d) == model_path(d) \in fit /\ d.tokenizer \in fit
  IN /\ \A m \in models : m.kind = "Local" =>
          sound(modelDirs[m.dir]) /\ \A i \in 1..(m.dir - 1) : ~sound(modelDirs[i])
     /\ ~starts => \A i \in DOMAIN modelDirs : ~sound(modelDirs[i])

(***************************************************************************)
(* The ONNX model in a child process.  The parent writes a length and a    *)
(* text and reads a dimension count and the vector, holding a mutex over   *)
(* the pipes; the child answers the requests in order.  The unit of the    *)
(* answer pipe is four bytes: one for a dimension count, two for every     *)
(* number.  Lengths are 0, 1 (valid) and 2 (above MAX_REQ).                *)
(***************************************************************************)

CONSTANTS
  WorkerCaller, WorkerText,
  Dims,             \* dimensions a loaded model may have
  ExpectedDims,     \* dimensions the parent was told to expect
  MaxWorkerCalls          \* bound on the calls

VARIABLES
  requestPipe, answerPipe,
  childAlive,
  childDims,        \* dimensions of the model the child loaded
  workerCall,       \* the call that holds the mutex, or NotAsking
  answers,          \* what calls returned: [text, vector]
  callsMade,
  childKilled       \* the child died by itself (auxiliary)

workerVars == <<requestPipe, answerPipe, childAlive, childDims, workerCall, answers, callsMade, childKilled>>

NotAsking == [caller |-> "none", step |-> "idle", text |-> 0, read |-> <<>>]
word_of(text, i) == [text |-> text, unit |-> i]
worker_vector(text, d) == [i \in 1..(2 * d) |-> word_of(text, i)]

\* spawn: two pipes and a child that has loaded its model.
WorkerInit ==
  /\ childDims \in Dims
  /\ requestPipe = <<>> /\ answerPipe = <<>> /\ childAlive = TRUE
  /\ workerCall = NotAsking /\ answers = {} /\ callsMade = 0 /\ childKilled = FALSE

length_valid(len) == len = 1

\* The mutex, the length check, then the request is written and flushed; a
\* write to a dead child fails.
embed_in_worker(c) ==
  \E text \in WorkerText, len \in 0..2 :
    /\ workerCall = NotAsking /\ callsMade < MaxWorkerCalls /\ callsMade' = callsMade + 1
    /\ IF length_valid(len) /\ childAlive
       THEN /\ requestPipe' = Append(requestPipe, [len |-> len, text |-> text])
            /\ workerCall' = [caller |-> c, step |-> "dims", text |-> text, read |-> <<>>]
       ELSE UNCHANGED <<requestPipe, workerCall>>
    /\ UNCHANGED <<answerPipe, childAlive, answers, childKilled, childDims>>

\* What four bytes say as a dimension count: those of a number say anything.
counts_read(word) == IF word.unit = 0 THEN {word.text} ELSE {0, childDims, ExpectedDims}

\* A wrong count returns at once and leaves the vector in the pipe.
ReadDims ==
  /\ workerCall.step = "dims"
  /\ \/ /\ answerPipe # <<>>
        /\ \E d \in counts_read(Head(answerPipe)) :
             workerCall' = IF d = ExpectedDims THEN [workerCall EXCEPT !.step = "vector"] ELSE NotAsking
        /\ answerPipe' = Tail(answerPipe)
     \/ answerPipe = <<>> /\ ~childAlive /\ workerCall' = NotAsking /\ UNCHANGED answerPipe
  /\ UNCHANGED <<requestPipe, childAlive, answers, callsMade, childKilled, childDims>>

vector_complete(read) == Len(read) = 2 * ExpectedDims

ReadVector ==
  /\ workerCall.step = "vector"
  /\ \/ /\ ~vector_complete(workerCall.read) /\ answerPipe # <<>>
        /\ workerCall' = [workerCall EXCEPT !.read = Append(@, Head(answerPipe))]
        /\ answerPipe' = Tail(answerPipe) /\ UNCHANGED answers
     \/ /\ vector_complete(workerCall.read)
        /\ answers' = answers \cup {[text |-> workerCall.text, vector |-> workerCall.read]}
        /\ workerCall' = NotAsking /\ UNCHANGED answerPipe
     \/ /\ ~vector_complete(workerCall.read) /\ answerPipe = <<>> /\ ~childAlive
        /\ workerCall' = NotAsking /\ UNCHANGED <<answerPipe, answers>>
  /\ UNCHANGED <<requestPipe, childAlive, callsMade, childKilled, childDims>>

\* The child's loop: an invalid length ends it, a text is answered.
worker_main ==
  /\ childAlive /\ requestPipe # <<>>
  /\ LET request == Head(requestPipe) IN
       IF request.len = 1
       THEN /\ requestPipe' = Tail(requestPipe) /\ UNCHANGED childAlive
            /\ answerPipe' = answerPipe \o <<[text |-> childDims, unit |-> 0]>> \o worker_vector(request.text, childDims)
       ELSE childAlive' = FALSE /\ UNCHANGED <<requestPipe, answerPipe>>
  /\ UNCHANGED <<workerCall, answers, callsMade, childKilled, childDims>>

\* The child dies, between requests or in the middle of an answer.
ChildDies ==
  /\ childAlive /\ childAlive' = FALSE /\ childKilled' = TRUE
  /\ \E sent \in 0..(IF requestPipe = <<>> THEN 0 ELSE 2 * childDims) :
       answerPipe' = answerPipe \o
         (IF sent = 0 THEN <<>>
          ELSE <<[text |-> childDims, unit |-> 0]>> \o SubSeq(worker_vector(Head(requestPipe).text, childDims), 1, sent - 1))
  /\ UNCHANGED <<requestPipe, workerCall, answers, callsMade, childDims>>

WorkerNext == (\E c \in WorkerCaller : embed_in_worker(c)) \/ ReadDims \/ ReadVector \/ worker_main \/ ChildDies

---------------------------------------------------------------------------
(* Properties. *)

\* A call returns the vector of its own text, whatever calls failed before
\* it and wherever the child died, as long as the child's model has the
\* dimensions the parent expects.
WorkerAnswersOwn ==
  childDims = ExpectedDims => \A a \in answers : a.vector = worker_vector(a.text, ExpectedDims)

\* No request makes the child leave its loop: it ends only when it crashes,
\* since the parent applies the child's limits to the length before writing.
RequestsKeepChildAlive == childAlive \/ childKilled
=============================================================================
