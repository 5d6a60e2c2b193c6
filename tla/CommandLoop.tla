----------------------------- MODULE CommandLoop -----------------------------
(***************************************************************************)
(* The interactive loop of the BKPS admin client: Commands.handle and      *)
(* Commands.section_loop (Modules/Commands.py), the parameter entry of     *)
(* CliMapper.get_requests_params / section_loop_short (Modules/CliMapper.py) *)
(* and the dispatch of RequestMethodMapper.request_methods                 *)
(* (Modules/RequestMethodMapper.py).                                       *)
(*                                                                         *)
(* The operator answers prompts; the program runs between prompts.  The   *)
(* operator is not assumed to answer ever; the program, single threaded,  *)
(* keeps running whenever it is not blocked in input(), which is the weak *)
(* fairness of FairSpec.                                                   *)
(*                                                                         *)
(* params, the dict get_requests_params builds, is the set of its keys.    *)
(* A dispatched request is [sec, op, args]: the Requester method called    *)
(* and which of the arguments the properties follow it receives.  Prompts *)
(* whose answers do not change what is dispatched (file paths, roles, the  *)
(* JSON/interactive choice, FAMILY_ID) are left out; each re-prompts until *)
(* it gets a valid answer.                                                 *)
(***************************************************************************)
EXTENDS Naturals, Sequences, FiniteSets, TLC

CONSTANTS
    None,
    Sections,      \* main-menu sections the operator may enter
    Junk,          \* an answer no menu accepts
    OutputPaths,   \* answers to 'Enter output path'
    Ids            \* answers to the input_number prompt for a configuration ID

\* Commands.valid_main_categories
AllSections == {"health", "service-import-key", "sealing-key", "context-key",
                "signing-key", "root-signing-key", "service-import-pub-key",
                "configuration", "communication", "user", "prefetch",
                "prefetch-status"}

ASSUME Sections \subseteq AllSections

VARIABLES
    level,       \* a prompt the program waits at, "loop"/"dispatch" between prompts, or "ended"
    section,     \* initial_cmf of the running section_loop
    params,      \* keys of the params dict being built
    choice,      \* the option section_loop_short returned
    id,          \* params['ID'] entered for a configuration get/delete
    uidOk,       \* is_hex_x_bytes_long(params['UID'], 8) for a prefetch
    chosen,      \* the request the operator asked for, None for none
    request,     \* the request the last request_methods call made, None for none
    upPending,   \* the operator typed 'up' and the main menu was not shown since
    lastInput    \* the operator's last answer at a menu prompt

cvars == <<level, section, params, choice, id, uidOk, chosen, request, upPending, lastInput>>

Prompts == {"main", "sub", "details", "output", "fields"}

-----------------------------------------------------------------------------
(* The tables get_requests_params and request_methods are written from.   *)

\* valid_options_array of each section_loop_short call (CliMapper.py:66-186).
ValidOptions(s) ==
    CASE s = "service-import-key"     -> {"create", "delete"}
      [] s = "sealing-key"            -> {"create", "rotate", "list", "backup", "restore"}
      [] s = "context-key"            -> {"rotate"}
      [] s = "signing-key"            -> {"create", "get", "list", "upload", "activate"}
      [] s = "root-signing-key"       -> {"add"}
      [] s = "service-import-pub-key" -> {"get"}
      [] s = "configuration"          -> {"list", "create", "get", "update", "delete"}
      [] s = "communication"          -> {"import", "list", "delete"}
      [] s = "user"                   -> {"create", "initial-create", "list",
                                          "role-set", "role-unset", "delete"}
      [] OTHER                        -> {}

\* The sections whose parameters come from section_loop_short.
SubSections == {s \in AllSections : ValidOptions(s) # {}}

\* The elif chain of request_methods within a section (RequestMethodMapper.py:42-150).
DispatchOrder(s) ==
    CASE s = "service-import-key"     -> <<"create", "delete">>
      [] s = "sealing-key"            -> <<"create", "rotate", "list", "backup", "restore">>
      [] s = "context-key"            -> <<"rotate">>
      [] s = "signing-key"            -> <<"create", "get", "list", "upload", "activate">>
      [] s = "root-signing-key"       -> <<"add">>
      [] s = "service-import-pub-key" -> <<"get">>
      [] s = "configuration"          -> <<"list", "get", "create", "update", "delete">>
      [] s = "communication"          -> <<"import", "list", "delete">>
      [] s = "user"                   -> <<"create", "initial-create", "list",
                                          "role-set", "role-unset", "delete">>
      [] OTHER                        -> <<>>

\* The variable argument each assign_params_value call of a sub-option
\* passes; communication 'import' passes its prompt label instead
\* (CliMapper.py:154).
AssignArg(s, o, v) ==
    IF s = "communication" /\ o = "import" THEN "Provide input path" ELSE v

\* assign_params_value(params, name, variable) (Utilities.py:232-252): is
\* name set?
assign_params_value(name, variable) == variable = None \/ variable = name

\* Options that ask 'Enter output path' and, after it, the options whose
\* assign_params_value calls test the path instead of the choice
\* (CliMapper.py:82-88, 104-117, 164-175).
OutputAfter(s, o) ==
    CASE <<s, o>> = <<"sealing-key", "backup">>  -> {"list", "restore"}
      [] <<s, o>> = <<"signing-key", "get">>     -> {"list", "upload", "activate"}
      [] <<s, o>> = <<"user", "create">>         -> {"initial-create", "list",
                                                     "role-set", "role-unset", "delete"}
      [] <<s, o>> = <<"user", "initial-create">> -> {"list", "role-set", "role-unset", "delete"}
      [] OTHER                                   -> None

\* The backup asks for the path unconditionally, the others after 'Save
\* output to file? (Y/N)'.
OutputMandatory(s, o) == <<s, o>> = <<"sealing-key", "backup">>

\* The arguments request_methods reads from params for a request, among those
\* the properties follow (RequestMethodMapper.py:110-113, 132-137).
ArgsRead(s, o) ==
    CASE s = "prefetch"                        -> {"--pdi"}
      [] <<s, o>> = <<"user", "initial-create">> -> {"TOKEN"}
      [] OTHER                                 -> {}

\* request_methods reaches the branch of option o of section s.
Reaches(s, o, p, i) ==
    /\ o \in p
    /\ s = "configuration" /\ o \in {"get", "delete"} => i \notin {None, 0}

\* Mutant: the whole params dict is handed to the Requester method.
ReqWithParams(s, o, p) == [sec |-> s, op |-> o, args |-> p]

\* The Requester method request_methods calls for option o, with the
\* arguments it reads from params.
Req(s, o, p) == [sec |-> s, op |-> o, args |-> ArgsRead(s, o) \cap p]

\* The request request_methods makes for params p of section s.
request_methods(s, p, i, ok) ==
    CASE s \notin p -> None
      [] s \in {"health", "prefetch-status"} -> Req(s, s, p)
      [] s = "prefetch" -> IF ok THEN Req(s, s, p) ELSE None
      [] OTHER ->
           LET hits == {k \in 1..Len(DispatchOrder(s)) :
                            Reaches(s, DispatchOrder(s)[k], p, i)}
           IN  IF hits = {} THEN None
               ELSE Req(s, DispatchOrder(s)[CHOOSE k \in hits : \A j \in hits : k <= j], p)


\* Where the program goes when the operator types 'exit' at a menu prompt:
\* handle returns True and the loop breaks (Commands.py:149-150,
\* 137-142), section_loop_short calls exit(0) (CliMapper.py:213-215).
ExitLevel(l) == "ended"

Keys == AllSections \cup UNION {ValidOptions(s) : s \in AllSections}
        \cup {"--output", "--detailed", "UID", "FAMILY_ID", "PDI", "CERT_FILE"}

Requests == [sec: AllSections, op: Keys, args: SUBSET {"--pdi", "TOKEN"}]

MainInputs == Sections \cup {"help", "exit", "up", Junk}

TypeOK ==
    /\ level \in Prompts \cup {"loop", "dispatch", "ended"}
    /\ section \in MainInputs \cup {None}
    /\ params \subseteq Keys
    /\ choice \in Keys \cup {None}
    /\ id \in Ids \cup {None}
    /\ uidOk \in BOOLEAN
    /\ chosen \in Requests \cup {None}
    /\ request \in Requests \cup {None}
    /\ upPending \in BOOLEAN
    /\ lastInput \in MainInputs \cup Keys \cup {None}

Init ==
    /\ level = "main"
    /\ section = None
    /\ params = {}
    /\ choice = None
    /\ id = None
    /\ uidOk = FALSE
    /\ chosen = None
    /\ request = None
    /\ upPending = FALSE
    /\ lastInput = None

-----------------------------------------------------------------------------
(* The operator's answers.                                                 *)

\* Commands.handle: 'help', 'exit', or a section: choose_config and
\* init_requests(False) run and section_loop starts with initial_cmf = a.
handle(a) ==
    /\ level = "main"
    /\ lastInput' = a
    /\ upPending' = FALSE
    /\ CASE a = "help" -> UNCHANGED <<level, section>>
         [] a = "exit" -> level' = ExitLevel("main") /\ UNCHANGED section
         [] OTHER      -> level' = "loop" /\ section' = a
    /\ UNCHANGED <<params, choice, id, uidOk, chosen, request>>

\* CliMapper.section_loop_short: 'up' breaks and get_requests_params
\* returns params as they are; 'help' and unknown answers re-prompt; a
\* valid option sets its keys, and the ID of a configuration get/delete.
section_loop_short(v) ==
    /\ level = "sub"
    /\ lastInput' = v
    /\ CASE v = "up" ->
              /\ level' = "dispatch" /\ upPending' = TRUE /\ chosen' = None
              /\ UNCHANGED <<params, choice, id>>
         [] v = "exit" ->
              /\ level' = ExitLevel("sub")
              /\ UNCHANGED <<params, choice, id, chosen, upPending>>
         [] v \in ValidOptions(section) ->
              /\ choice' = v
              /\ params' = params \cup {o \in ValidOptions(section) :
                                          assign_params_value(o, AssignArg(section, o, v))}
              /\ IF section = "configuration" /\ v \in {"get", "delete"}
                 THEN id' \in Ids ELSE UNCHANGED id
              /\ chosen' = [sec |-> section, op |-> v, args |-> ArgsRead(section, v)]
              /\ level' = IF OutputAfter(section, v) = None THEN "dispatch" ELSE "output"
              /\ UNCHANGED upPending
         [] OTHER -> UNCHANGED <<level, params, choice, id, chosen, upPending>>
    /\ UNCHANGED <<section, uidOk, request>>

\* 'Enter output path' (None: 'Save output to file?' answered N).  The path
\* becomes `variable`, which the later assign_params_value calls test.
input_output(p) ==
    /\ level = "output"
    /\ p = None => ~OutputMandatory(section, choice)
    /\ params' = IF p = None THEN params
                 ELSE params \cup {"--output"}
                             \cup {o \in OutputAfter(section, choice) : assign_params_value(o, p)}
    /\ level' = "dispatch"
    /\ lastInput' = None
    /\ UNCHANGED <<section, choice, id, uidOk, chosen, request, upPending>>

\* health: 'Show details? (Y/N)' (CliMapper.py:61-64).
input_details(d) ==
    /\ level = "details"
    /\ params' = IF d = "Y" THEN params \cup {"--detailed"} ELSE params
    /\ chosen' = [sec |-> "health", op |-> "health", args |-> {}]
    /\ level' = "dispatch"
    /\ lastInput' = None
    /\ UNCHANGED <<section, choice, id, uidOk, request, upPending>>

\* prefetch / prefetch-status: the UID, family, PDI and certificate prompts
\* (CliMapper.py:188-199); pdi: the operator entered a PDI or certificate.
input_prefetch(ok, pdi) ==
    /\ level = "fields"
    /\ section = "prefetch-status" => ~pdi
    /\ params' = params \cup IF section = "prefetch"
                             THEN {"UID", "FAMILY_ID", "PDI", "CERT_FILE"}
                             ELSE {"UID", "FAMILY_ID"}
    /\ uidOk' = ok
    /\ chosen' = IF section = "prefetch" /\ ~ok THEN None
                 ELSE [sec |-> section, op |-> section,
                       args |-> IF pdi THEN {"--pdi"} ELSE {}]
    /\ level' = "dispatch"
    /\ lastInput' = None
    /\ UNCHANGED <<section, choice, id, request, upPending>>

\* Ctrl-C at a prompt: KeyboardInterrupt is caught by Commands.run.
interrupt ==
    /\ level \in Prompts
    /\ level' = "ended"
    /\ lastInput' = None
    /\ UNCHANGED <<section, params, choice, id, uidOk, chosen, request, upPending>>


-----------------------------------------------------------------------------
(* The program between prompts.                                           *)

\* One iteration of Commands.section_loop (Commands.py:199-216): variable
\* is initial_cmf on every iteration; anything but up/help/exit goes to
\* get_requests_params(variable), which prompts according to the section.
section_loop ==
    /\ level = "loop"
    /\ CASE section = "up"   -> level' = "main" /\ UNCHANGED <<params, chosen>>
         [] section = "exit" -> level' = "ended" /\ UNCHANGED <<params, chosen>>
         [] OTHER ->
              /\ params' = {s \in AllSections : assign_params_value(s, section)}
              /\ level' = CASE section \in SubSections -> "sub"
                            [] section = "health" -> "details"
                            [] section \in {"prefetch", "prefetch-status"} -> "fields"
                            [] OTHER -> "dispatch"
              /\ chosen' = None
    /\ lastInput' = None
    /\ UNCHANGED <<section, choice, id, uidOk, request, upPending>>

\* callback(params): RequestMethodMapper.request_methods makes at most one
\* request; the request may end the process (check_file, Configurator's
\* sys.exit, an exception reaching Commands.run).  Then section_loop
\* iterates again.
dispatch ==
    /\ level = "dispatch"
    /\ request' = request_methods(section, params, id, uidOk)
    /\ level' \in IF request' = None THEN {"loop"} ELSE {"loop", "ended"}
    /\ params' = {}
    /\ choice' = None
    /\ id' = None
    /\ uidOk' = FALSE
    /\ lastInput' = None
    /\ UNCHANGED <<section, chosen, upPending>>

Operator ==
    \/ \E a \in MainInputs : handle(a)
    \/ \E v \in ValidOptions(section) \cup {"up", "help", "exit", Junk} :
          section_loop_short(v)
    \/ \E p \in OutputPaths \cup {None} : input_output(p)
    \/ \E d \in {"Y", "N"} : input_details(d)
    \/ \E ok, pdi \in BOOLEAN : input_prefetch(ok, pdi)
    \/ interrupt

Program == section_loop \/ dispatch

Next == Operator \/ Program

Spec == Init /\ [][Next]_cvars

\* The program is single threaded and runs until it blocks in input(); the
\* operator may never answer, so only the program's steps are fair.
FairSpec == Spec /\ WF_cvars(Program)

-----------------------------------------------------------------------------

\* The request request_methods makes is the one the operator chose at the
\* section menu, with the arguments it was given (the PDI of a prefetch)
\* or that its usage requires (the TOKEN of user initial-create), and none
\* when the operator chose none.
DispatchMatchesChoice ==
    [][level = "dispatch" => request' = chosen]_cvars

\* Leaving a section returns to the main menu: after 'up' at a section
\* menu ("Moved back to previous section"), or a main-menu answer that
\* names no section, the program shows the main menu again (or ends)
\* without the operator having to answer anything first.
LeavingReturnsToMain ==
    (upPending \/ section = Junk) ~> level \in {"main", "ended"}

=============================================================================
