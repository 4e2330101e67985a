------------------------------ MODULE Provider ------------------------------
(***************************************************************************)
(* The LLM layer: llm/provider.py with llm/recorder.py and get_provider of *)
(* jobs/handlers.py.  A caller makes one call at a time; a call is one     *)
(* invocation of the model, or two when a structured answer cannot be read *)
(* and the model is asked again in JSON mode.  An invocation is up to      *)
(* MaxRetries requests, and should leave one row of the llm_call ledger.   *)
(*                                                                         *)
(* What a model answers is abstracted to what the code tells apart; prompts*)
(* tokens and prices are left out.                                         *)
(***************************************************************************)
EXTENDS Naturals, Sequences, FiniteSets

CONSTANTS
    Callers,        \* tasks that share the ledger
    BookIds,        \* the books calls are made for
    MaxRetries,     \* settings.llm_max_retries
    SettingsInUse,  \* the configurations considered
    MaxCalls        \* BOUND on the calls of one caller

ASSUME RetriesAssumption == MaxRetries \in Nat
ASSUME CallsAssumption == MaxCalls \in Nat
ASSUME BookIdsAssumption == BookIds # {}

VARIABLES
    settings,   \* the configuration, fixed while the process runs
    call,       \* what each caller's call is doing
    ledger,     \* the committed llm_call rows of each caller, oldest first;
                \* a deleted one keeps its place and loses its status
    lost        \* history: invocations that left no row, and why

llmVars == <<settings, call, ledger, lost>>

(***************************************************************************)
(* Configuration                                                           *)
(***************************************************************************)

(* "remote" stands for github, openai, anthropic and nvidia, which differ  *)
(* in addresses only; "typo" for a name that is no provider's.             *)
Configuration ==
    [name : {"remote", "ollama", "fake", "typo"}, key : BOOLEAN, package : BOOLEAN]

ASSUME SettingsAssumption == SettingsInUse \subseteq Configuration

(* get_llm_provider raises LLMConfigError; get_provider falls back.        *)
Unconfigured(s) == s.name = "typo" \/ (s.name = "remote" /\ ~s.key)
GetLlmProvider(s) == IF Unconfigured(s) THEN "LLMConfigError" ELSE s.name
GetProvider(s) ==
    IF GetLlmProvider(s) = "LLMConfigError" THEN "fake" ELSE GetLlmProvider(s)

Backend == GetProvider(settings)
SupportsVision == Backend = "remote"

(* The package of the provider is imported by the first use of chat_model. *)
BuildsChatModel == settings.package

(***************************************************************************)
(* Calls                                                                   *)
(***************************************************************************)

Kind == {"text", "vision", "structured"}
Failure == {"transient", "permanent", "config"}

(* What a request brings: an answer of the wanted form ("value"), an empty *)
(* text, a text that must be parsed and can be ("json") or cannot          *)
(* ("prose"), content that is a list of blocks and no string, or an        *)
(* exception: timeouts, 429 and 5xx are transient.                         *)
Answers(mode) ==
    (CASE mode = "plain"  -> {"value", "empty"}
       [] mode = "schema" -> {"value", "json", "prose", "blocks"}
       [] mode = "json"   -> {"json", "prose", "blocks"})
    \cup (IF BuildsChatModel THEN {"transient", "permanent"} ELSE {"config"})

Retryable(answer) == answer = "transient"

(* What the caller gets: text, or structured data, or an exception.        *)
Outcome == {"none", "value", "empty", "LLMError", "LLMOutputError",
            "LLMConfigError", "AttributeError"}

(* at: idle, or asking (a request is out), heard (_invoke is over), or     *)
(* done (the caller has the result).  nr counts the caller's invocations,  *)
(* first is the number of the call's first one.                            *)
Call == [at : {"idle", "asking", "heard", "done"},
         mode : {"plain", "schema", "json"},
         tries : Nat, nr : Nat, first : Nat, calls : Nat, book : BookIds,
         answer : Failure \cup {"none", "value", "empty", "json", "prose", "blocks"},
         result : Outcome]

NoCall == [at |-> "idle", mode |-> "plain", tries |-> 0, nr |-> 0, first |-> 0,
           calls |-> 0, book |-> CHOOSE b \in BookIds : TRUE,
           answer |-> "none", result |-> "none"]

ProviderInit ==
    /\ settings \in SettingsInUse
    /\ call = [c \in Callers |-> NoCall]
    /\ ledger = [c \in Callers |-> <<>>]
    /\ lost = [c \in Callers |-> {}]

Asked(k, mode) ==
    [k EXCEPT !.at = "asking", !.mode = mode, !.tries = 0, !.nr = @ + 1, !.answer = "none"]

Opened(k, b) ==
    [k EXCEPT !.first = k.nr + 1, !.calls = @ + 1, !.book = b, !.result = "none"]

Heard(k, answer) == [k EXCEPT !.at = "heard", !.answer = answer]

Ended(k, result) == [k EXCEPT !.at = "done", !.result = result]

(* The fake provider answers without a model, and sees nothing in images.  *)
FakeAnswer(kind) == IF kind = "vision" THEN "empty" ELSE "value"

(* A text or vision call, or a structured one of a model that can be bound *)
(* to the schema ("schema") or cannot ("json").  A model that cannot be    *)
(* built fails a structured call before anything is invoked.               *)
Begin(c, kind, b) ==
    LET k == Opened(call[c], b) IN
    /\ call[c].at \in {"idle", "done"}
    /\ \/ /\ Backend = "fake"
          /\ call' = [call EXCEPT ![c] = Heard(Asked(k, "plain"), FakeAnswer(kind))]
       \/ /\ Backend # "fake" /\ kind \in {"text", "vision"}
          /\ call' = [call EXCEPT ![c] = Asked(k, "plain")]
       \/ /\ Backend # "fake" /\ kind = "structured" /\ BuildsChatModel
          /\ \E mode \in {"schema", "json"} : call' = [call EXCEPT ![c] = Asked(k, mode)]
       \/ /\ Backend # "fake" /\ kind = "structured" /\ ~BuildsChatModel
          /\ call' = [call EXCEPT ![c] = Ended(k, "LLMConfigError")]
    /\ UNCHANGED <<settings, ledger, lost>>

LastTry(k) == k.tries + 1 >= MaxRetries

(* MUTANT: after the last try the budget starts again.                     *)
TriedOverAgain(k, answer) ==
    IF Retryable(answer) THEN [k EXCEPT !.tries = IF LastTry(k) THEN 0 ELSE @ + 1]
    ELSE Heard(k, answer)

(* One request of _invoke; a transient failure is tried again.             *)
Tried(k, answer) ==
    [Heard(k, answer) EXCEPT !.tries = @ + 1,
        !.at = IF Retryable(answer) /\ ~LastTry(k) THEN "asking" ELSE "heard"]

Request(c) ==
    /\ call[c].at = "asking"
    /\ \E answer \in Answers(call[c].mode) :
           call' = [call EXCEPT ![c] = Tried(@, answer)]
    /\ UNCHANGED <<settings, ledger, lost>>

Status(answer) ==
    CASE answer \in Failure -> "error"
      [] answer = "prose" -> "parse_error"
      [] OTHER -> "ok"

Result(answer) ==
    CASE answer \in Failure -> "LLMError"
      [] answer = "prose" -> "LLMOutputError"
      [] answer = "empty" -> "empty"
      [] OTHER -> "value"

LedgerRow ==
    [nr : Nat, book : BookIds, status : {"ok", "error", "parse_error", "deleted"}]

(* The row of an invocation, written in a session of its own.              *)
Row(k) == [nr |-> k.nr, book |-> k.book, status |-> Status(k.answer)]

LoseRow(c, why) == lost' = [lost EXCEPT ![c] = @ \cup {[nr |-> call[c].nr, why |-> why]}]

Recording(c) == call[c].at = "heard" /\ call[c].answer # "blocks"

(* MUTANT: a parse failure falls through to JSON mode.                     *)
SettledOrAskedAgain(c) ==
    call' = [call EXCEPT ![c] =
        IF @.answer = "prose" /\ @.mode = "schema" THEN Asked(@, "json")
        ELSE Ended(@, Result(@.answer))]

Settled(c) == call' = [call EXCEPT ![c] = Ended(@, Result(@.answer))]

(* MUTANT: a parse failure is recorded where it is raised and caught.      *)
RecordTwice(c) ==
    /\ Recording(c)
    /\ ledger' = [ledger EXCEPT ![c] =
          IF Status(call[c].answer) = "parse_error"
          THEN @ \o <<Row(call[c]), Row(call[c])>> ELSE Append(@, Row(call[c]))]
    /\ Settled(c)
    /\ UNCHANGED <<settings, lost>>

(* MUTANT: _invoke raises without recording.                               *)
RecordSuccesses(c) ==
    /\ Recording(c)
    /\ ledger' = IF call[c].answer \in Failure THEN ledger
                 ELSE [ledger EXCEPT ![c] = Append(@, Row(call[c]))]
    /\ Settled(c)
    /\ UNCHANGED <<settings, lost>>

Record(c) ==
    /\ Recording(c)
    /\ ledger' = [ledger EXCEPT ![c] = Append(@, Row(call[c]))]
    /\ Settled(c)
    /\ UNCHANGED <<settings, lost>>

(* The database is away, or the book was deleted and the foreign key fails:*)
(* the error is logged and the caller gets its result all the same.        *)
RecordFails(c) ==
    /\ Recording(c)
    /\ LoseRow(c, "write")
    /\ Settled(c)
    /\ UNCHANGED <<settings, ledger>>

(* _strip_fences is given a list: the AttributeError is taken for a model  *)
(* without structured output, or in JSON mode leaves the call.             *)
Unreadable(c) ==
    /\ call[c].at = "heard" /\ call[c].answer = "blocks"
    /\ LoseRow(c, "blocks")
    /\ call' = [call EXCEPT ![c] = IF @.mode = "schema" THEN Asked(@, "json")
                                   ELSE Ended(@, "AttributeError")]
    /\ UNCHANGED <<settings, ledger>>

(* The caller's process dies, or its task is cancelled.                    *)
Die(c) ==
    /\ call[c].at \in {"asking", "heard"}
    /\ LoseRow(c, "death")
    /\ call' = [call EXCEPT ![c].at = "idle"]
    /\ UNCHANGED <<settings, ledger>>

(* A book is deleted, its rows with it.                                    *)
ForgetBook(b) ==
    /\ ledger' = [c \in Callers |-> [i \in DOMAIN ledger[c] |->
                     IF ledger[c][i].book = b THEN [ledger[c][i] EXCEPT !.status = "deleted"]
                     ELSE ledger[c][i]]]
    /\ UNCHANGED <<settings, call, lost>>

ProviderStep(c) == Request(c) \/ Record(c) \/ RecordFails(c) \/ Unreadable(c)

ProviderNext ==
    \/ \E c \in Callers : ProviderStep(c) \/ Die(c)
    \/ \E c \in Callers, kind \in Kind, b \in BookIds :
           call[c].calls < MaxCalls /\ Begin(c, kind, b)
    \/ \E b \in BookIds : ForgetBook(b)

ProviderSpec == ProviderInit /\ [][ProviderNext]_llmVars

(***************************************************************************)
(* Properties                                                              *)
(***************************************************************************)

ProviderTypeOK ==
    /\ settings \in Configuration
    /\ call \in [Callers -> Call]
    /\ ledger \in [Callers -> Seq(LedgerRow)]
    /\ lost \in [Callers -> SUBSET [nr : Nat, why : {"write", "blocks", "death"}]]

Pending(c) == call[c].at \in {"asking", "heard"}
RowsOf(c, n) == {i \in DOMAIN ledger[c] : ledger[c][i].nr = n}
Lost(c, n) == \E l \in lost[c] : l.nr = n

(* A finished invocation has one row or is on record as lost with a reason,*)
(* and never has two rows, also when the call was asked again, retried,    *)
(* failed to parse or shares the ledger with others (the row may be deleted*)
(* later, with its book).  This is less than provider.py:10 promises,      *)
(* "record one llm_call row per invocation": an invocation has no row when *)
(* the row cannot be written (273-279), when the process dies, and when the*)
(* answer is a list of blocks, whose AttributeError passes by both calls of*)
(* _record (182 and 192), although its tokens have been paid for.          *)
OneRowPerInvocation ==
    \A c \in Callers : \A n \in 1..call[c].nr :
        Cardinality(RowsOf(c, n)) =
            (IF Lost(c, n) \/ (n = call[c].nr /\ Pending(c)) THEN 0 ELSE 1)

(* A model is paid a second time by one call only when its first answer    *)
(* could not be read as text; a parse failure is never asked again.        *)
SecondAskOnlyUnread ==
    \A c \in Callers :
        call[c].first < call[c].nr =>
            /\ call[c].nr = call[c].first + 1
            /\ [nr |-> call[c].first, why |-> "blocks"] \in lost[c]

(* A call that is not Ollama's comes to an end.                            *)
EveryCallEnds ==
    \A c \in Callers : Backend # "ollama" /\ Pending(c) ~> ~Pending(c)
=============================================================================
