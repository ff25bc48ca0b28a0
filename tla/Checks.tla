------------------------------- MODULE Checks -------------------------------
(***************************************************************************)
(* The deterministic layer of an experiment (src/coding, src/evaluators):  *)
(* which files a model's output contains, which of them end up in the      *)
(* workspace, and what each check makes of the output, the workspace and   *)
(* of how a verifier's process ends.                                       *)
(*                                                                         *)
(* A path is the sequence of its segments, a file [path, bytes, json].     *)
(* An output is a record: text ("blank", "short", "refusal" or "answer"),  *)
(* envelope (the files of its JSON envelope), blocks (those of its labelled*)
(* code blocks), json, sections and matches (the patterns it matches).     *)
(* Text that may be JSON is the sequence of what extractJson may read it   *)
(* as: "none" where it does not parse, otherwise a value.                  *)
(***************************************************************************)
EXTENDS Integers, SequencesExt, FiniteSets

CONSTANTS
  Allowlist,                           \* the tools a check may name
  MaxFiles, MaxFileBytes, MaxTotalBytes

----------------------------------------------------------------------------
(* Files of the output.                                                    *)

(* Neither empty, absolute, home-relative, a drive, nor a traversal.       *)
ValidateRelPath(path) ==
  /\ path # << >>
  /\ path[1] \notin {"~", "C:"}
  /\ Range(path) \cap {"", " ", ".", "..", "\\"} = {}

Accepts(out, file) ==
  /\ ValidateRelPath(file.path)
  /\ \A i \in DOMAIN out : out[i].path # file.path
  /\ file.bytes <= MaxFileBytes

(* A file that is refused is skipped; one that is over a budget ends it.   *)
PushFile(state, file) ==
  IF state.truncated THEN state
  ELSE IF ~Accepts(state.out, file)
       THEN [state EXCEPT !.rejected = Append(@, file.path)]
  ELSE IF Len(state.out) >= MaxFiles \/ state.total + file.bytes > MaxTotalBytes
       THEN [state EXCEPT !.rejected = Append(@, file.path), !.truncated = TRUE]
  ELSE [state EXCEPT !.out = Append(@, file), !.total = @ + file.bytes]

ExtractFiles(output) ==
  FoldLeft(PushFile, [out |-> << >>, rejected |-> << >>, total |-> 0, truncated |-> FALSE],
           IF output.envelope # << >> THEN output.envelope ELSE output.blocks)

----------------------------------------------------------------------------
(* The workspace: its files, and "failed" when its making throws.          *)

NoWorkspace == [files |-> {}, written |-> {}, failed |-> FALSE]

Paths(ws) == {f.path : f \in ws.files}

Ancestors(path) == {SubSeq(path, 1, k) : k \in 1..(Len(path) - 1)}

Folders(ws) == UNION {Ancestors(p) : p \in Paths(ws)}

(* mkdir throws where an ancestor is a file; a write never replaces.       *)
WriteFile(ws, file) ==
  IF ws.failed THEN ws
  ELSE IF Ancestors(file.path) \cap Paths(ws) # {} THEN [ws EXCEPT !.failed = TRUE]
  ELSE IF file.path \in Paths(ws) \cup Folders(ws) THEN ws
  ELSE [ws EXCEPT !.files = @ \cup {file}, !.written = @ \cup {file.path}]

CreateWorkspace(output, fixtures) ==
  FoldLeft(WriteFile, [NoWorkspace EXCEPT !.files = fixtures], ExtractFiles(output).out)

----------------------------------------------------------------------------
(* Processes.                                                              *)

Statuses == {"pass", "fail", "not_available", "error"}

(* How a process may end: with an exit code, killed by a signal of its own *)
(* or by the timeout, never found, too much output, refused by the system. *)
Ends == {"exit0", "exit1", "signal", "timeout", "absent", "overflow", "refused"}

Exec(status, code) == [status |-> status, exitCode |-> code]

(* What execFile's callback makes of it: an overflow or a refusal has      *)
(* neither a signal nor a code it knows, and counts as exit code 1.        *)
SandboxExec(end) ==
  CASE end \in {"signal", "timeout"} -> Exec("timeout", -1)
    [] end = "absent" -> Exec("spawn_error", -1)
    [] end = "exit0" -> Exec("completed", 0)
    [] OTHER -> Exec("completed", 1)

(* The probe of a tool: anything but a failure to start it will do.        *)
Available(exec) == exec.status # "spawn_error"

----------------------------------------------------------------------------
(* Checks: [kind, blocking, ...] with the fields of their kind.            *)

IsCheck(check) ==
  /\ check.kind \in {"command", "json_schema", "required_sections", "regex", "file_exists"}
  /\ check.kind = "json_schema" => check.source \in {"output", "file"}
  /\ check.blocking \in BOOLEAN

PassIf(condition) == IF condition THEN "pass" ELSE "fail"

(* Mutated form: a verifier that cannot be started fails the check. *)
CommandStatusMissing(check, exec, prints) ==
  PassIf(exec.status = "completed" /\ exec.exitCode = check.expectExitCode)

(* Mutated form: the status of the process is taken for one of the check. *)
CommandStatusRaw(check, exec, prints) ==
  IF exec.status = "completed" THEN PassIf(exec.exitCode = check.expectExitCode) ELSE exec.status

(* prints is the set of patterns what the process printed matches.         *)
CommandStatus(check, exec, prints) ==
  CASE exec.status = "spawn_error" -> "not_available"
    [] exec.status = "timeout" -> "fail"
    [] OTHER -> PassIf(/\ exec.exitCode = check.expectExitCode
                       /\ check.expectOutput \subseteq prints
                       /\ check.forbidOutput \cap prints = {})

(* The first reading that parses, and whether the schema allows it.        *)
ExtractJson(readings) ==
  LET i == SelectInSeq(readings, LAMBDA v : v # "none")
  IN  IF i = 0 THEN "none" ELSE readings[i]

JsonMatches(readings, schema) == ExtractJson(readings) \in schema \ {"none"}

(* A check that starts no process; ws is NoWorkspace where there is none.  *)
StructuralStatus(check, output, hasWorkspace, ws) ==
  CASE check.kind = "json_schema" /\ check.source = "output" ->
         PassIf(JsonMatches(output.json, check.schema))
    [] check.kind = "json_schema" /\ check.source = "file" ->
         IF check.path = << >> \/ ~hasWorkspace THEN "error"
         ELSE PassIf(\E f \in ws.files : f.path = check.path /\ JsonMatches(f.json, check.schema))
    [] check.kind = "required_sections" -> PassIf(check.sections \subseteq output.sections)
    [] check.kind = "regex" -> PassIf((check.pattern \in output.matches) = check.mustMatch)
    [] check.kind = "file_exists" ->
         IF ~hasWorkspace THEN "error" ELSE PassIf(check.paths \subseteq Paths(ws))

(* Executable checks first, otherwise as the benchmark lists them.         *)
InAuthorityOrder(checks) ==
  LET command(i) == checks[i].kind = "command"
      before(i, j) == \/ command(i) /\ ~command(j)
                      \/ (command(i) <=> command(j)) /\ i < j
      place(i) == Cardinality({j \in DOMAIN checks : before(j, i)}) + 1
  IN  [k \in DOMAIN checks |-> checks[CHOOSE i \in DOMAIN checks : place(i) = k]]

NeedsWorkspace(benchmark) ==
  \/ benchmark.fixtures # {}
  \/ \E i \in DOMAIN benchmark.checks :
       LET c == benchmark.checks[i]
       IN  c.kind \in {"command", "file_exists"} \/ (c.kind = "json_schema" /\ c.source = "file")

(* Mutated form: a verifier that is missing goes unnoticed. *)
SummarizeDeterministicPresent(evals) ==
  LET blocking(status) == \E i \in DOMAIN evals : evals[i].blocking /\ evals[i].status = status
  IN  [hasBlockingFailure |-> blocking("fail"), hasBlockingNotAvailable |-> FALSE,
       hasError |-> \E i \in DOMAIN evals : evals[i].status = "error"]

(* The flags of a list of results [blocking, structural, status].          *)
SummarizeDeterministic(evals) ==
  LET blocking(status) == \E i \in DOMAIN evals : evals[i].blocking /\ evals[i].status = status
  IN  [hasBlockingFailure |-> blocking("fail"),
       hasBlockingNotAvailable |-> blocking("not_available"),
       hasError |-> \E i \in DOMAIN evals : evals[i].status = "error"]
=============================================================================
