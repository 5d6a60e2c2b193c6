--------------------------- MODULE DocoptCommand ---------------------------
(***************************************************************************)
(* One scripted invocation of the BKPS admin client: runner.py parses the  *)
(* command line with docopt, Commands.run hands the arguments to           *)
(* RequestMethodMapper.request_methods (Requester built with              *)
(* finish_on_error = True), which calls one endpoint wrapper of            *)
(* Modules/Requester.py; the wrapper builds the URL and body, calls       *)
(* perform_request and may save what it returned to the --output file.   *)
(*                                                                         *)
(* The arguments are the docopt dict restricted to what request_methods    *)
(* reads, drawn from the usage lines of runner.py.  perform_request is     *)
(* Requester.tla's; here it is one step whose outcome is one of the        *)
(* results it can give in finish_on_error mode.  configuration create and  *)
(* update are Configurator.tla's and are left out.                         *)
(*                                                                         *)
(* A file argument is "ok" (a file that exists) or "missing"; IDs, UIDs,   *)
(* aliases, roles and tokens are strings, converted as the code converts  *)
(* them (int(), '%s' % v, str(v)).                                        *)
(***************************************************************************)
EXTENDS Validator, FiniteSets, TLC

CONSTANTS
    IdInputs,      \* values of ID
    UidInputs,     \* values of UID (--deviceId)
    AliasInputs,   \* values of ALIAS
    RoleInputs,    \* values of ROLE
    TokenInputs,   \* values of TOKEN
    FamilyInputs,  \* values of FAMILY_ID
    PdiInputs,     \* values of PDI
    CertInputs,    \* values of CERT_FILE: a file path or a PEM text
    FileInputs,    \* values of a FILE argument: SUBSET {"ok", "missing"}
    OutputInputs,  \* values of --output
    Outcomes,      \* results of perform_request the service can cause
    UidBytes       \* the decoded UID length the service requires (8)

ASSUME FileInputs \subseteq {"ok", "missing"}
ASSUME Outcomes \subseteq {"data", "empty", "created", "service_error", "exit1", "sysexit"}

VARIABLES
    args,        \* the docopt arguments
    pc,          \* "dispatch", "sent", "save" or "done"
    request,     \* the request perform_request was called with, None before
    outcome,     \* what perform_request did
    written,     \* the output file save_data_to_file wrote, None for none
    exitStatus   \* the process exit status, None while it runs

vars == <<args, pc, request, outcome, written, exitStatus>>

NoneStr == <<"N", "o", "n", "e">>

\* '%s' % v and str(v): None becomes the text "None".
PyStrArg(v) == IF v = None THEN NoneStr ELSE v

-----------------------------------------------------------------------------
(* runner.py usage *)

NoArgs == [sec |-> None, op |-> None, id |-> None, role |-> None, alias |-> None,
           uid |-> None, family |-> None, pdi |-> None, cert |-> None,
           token |-> None, input |-> None, output |-> None, detailed |-> FALSE,
           single |-> None, multi |-> None]

Opt(S) == S \cup {None}

\* Commands without arguments, as <<section, option>>.
BareCommands ==
    {<<"service-import-key", "create">>, <<"service-import-key", "delete">>,
     <<"sealing-key", "create">>, <<"sealing-key", "rotate">>, <<"sealing-key", "list">>,
     <<"signing-key", "create">>, <<"signing-key", "list">>,
     <<"configuration", "list">>, <<"context-key", "rotate">>,
     <<"communication", "list">>, <<"user", "list">>}

DocoptArgs ==
    {[NoArgs EXCEPT !.sec = "health", !.detailed = d] : d \in BOOLEAN}
    \cup {[NoArgs EXCEPT !.sec = c[1], !.op = c[2]] : c \in BareCommands}
    \cup {[NoArgs EXCEPT !.sec = "sealing-key", !.op = "backup", !.input = i, !.output = o] :
            i \in FileInputs, o \in OutputInputs}
    \cup {[NoArgs EXCEPT !.sec = s, !.op = o, !.input = i] :
            <<s, o>> \in {<<"sealing-key", "restore">>, <<"root-signing-key", "add">>},
            i \in FileInputs}
    \cup {[NoArgs EXCEPT !.sec = "signing-key", !.op = "get", !.id = i, !.output = o] :
            i \in IdInputs, o \in Opt(OutputInputs)}
    \cup {[NoArgs EXCEPT !.sec = "signing-key", !.op = "upload", !.id = i,
                         !.single = f, !.multi = g] : i \in IdInputs, f, g \in FileInputs}
    \cup {[NoArgs EXCEPT !.sec = s, !.op = o, !.id = i] :
            <<s, o>> \in {<<"signing-key", "activate">>, <<"configuration", "get">>,
                          <<"configuration", "delete">>},
            i \in IdInputs}
    \cup {[NoArgs EXCEPT !.sec = "service-import-pub-key", !.op = "get", !.output = o] :
            o \in Opt(OutputInputs)}
    \cup {[NoArgs EXCEPT !.sec = "prefetch", !.family = f, !.uid = u, !.pdi = p, !.cert = c] :
            f \in FamilyInputs, u \in UidInputs, p \in Opt(PdiInputs), c \in Opt(CertInputs)}
    \cup {[NoArgs EXCEPT !.sec = "prefetch-status", !.uid = u, !.family = f] :
            u \in Opt(UidInputs), f \in Opt(FamilyInputs)}
    \cup {[NoArgs EXCEPT !.sec = "communication", !.op = "import", !.input = i] :
            i \in Opt(FileInputs)}
    \cup {[NoArgs EXCEPT !.sec = "communication", !.op = "delete", !.alias = a] :
            a \in Opt(AliasInputs)}
    \cup {[NoArgs EXCEPT !.sec = "user", !.op = "create", !.input = i, !.output = o] :
            i \in Opt(FileInputs), o \in Opt(OutputInputs)}
    \cup {[NoArgs EXCEPT !.sec = "user", !.op = "initial-create", !.token = t,
                         !.input = i, !.output = o] :
            t \in TokenInputs, i \in Opt(FileInputs), o \in Opt(OutputInputs)}
    \cup {[NoArgs EXCEPT !.sec = "user", !.op = o, !.id = i, !.role = r] :
            o \in {"role-set", "role-unset"}, i \in Opt(IdInputs), r \in Opt(RoleInputs)}
    \cup {[NoArgs EXCEPT !.sec = "user", !.op = "delete", !.id = i] : i \in Opt(IdInputs)}

-----------------------------------------------------------------------------
(* Modules/Utilities.py and the file helpers of Modules/Requester.py *)

\* A step of the wrappers before perform_request: go on, raise an
\* exception (Commands.run catches it, prints it and returns: status 0),
\* or sys.exit(message) (status 1).
Proceed == "ok"
Raised == "raise"
SysExit == "sysexit"

\* check_file: sys.exit when the file does not exist; os.path.isfile(None)
\* raises TypeError.
check_file(f) == CASE f = None -> Raised [] f = "ok" -> Proceed [] OTHER -> SysExit

check_file_soft(f) == f = "ok"

\* read_file of a file that exists: its text.
read_file(f) == "text of " \o f

\* Variant: the path is passed on without opening the file.
PyOpen_unchecked(f) == Proceed

\* open(f): TypeError for None, FileNotFoundError for a missing file.
PyOpen(f) == IF f = "ok" THEN Proceed ELSE Raised

prepare_payload_from_file(f) == check_file(f)
prepare_binary_payload_from_file(f) == check_file(f)

\* int(v) on a str or None: TypeError or ValueError, or the number.
PyIntOk(v) == v # None /\ PyInt(v, 10) # None

\* The text '%d' % int(v) puts in the URL.
IntKey(v) == PyStr(PyInt(v, 10))

-----------------------------------------------------------------------------
(* The endpoint wrappers of Modules/Requester.py *)

NoRequest == [method |-> None, url |-> None, key |-> None, query |-> None,
              payload |-> None, files |-> {}, role |-> None, item |-> None,
              nonAuth |-> FALSE]

\* A call of perform_request, or what stopped the wrapper before it.
Call(r) == [step |-> Proceed, req |-> r]
Stop(step) == [step |-> step, req |-> None]

Get(url) == [NoRequest EXCEPT !.method = "GET", !.url = url]
Post(url) == [NoRequest EXCEPT !.method = "POST", !.url = url]
Delete(url) == [NoRequest EXCEPT !.method = "DELETE", !.url = url]

\* Steps in the order the wrapper takes them: the first that does not
\* proceed stops it.
FirstStop(steps) ==
    LET bad == {i \in DOMAIN steps : steps[i] # Proceed}
    IN  IF bad = {} THEN Proceed ELSE steps[CHOOSE i \in bad : \A j \in bad : i <= j]

Then(steps, r) == IF FirstStop(steps) = Proceed THEN Call(r) ELSE Stop(FirstStop(steps))

health(detailed) ==
    Call([Get(IF detailed THEN "/health/sla" ELSE "/health") EXCEPT !.nonAuth = TRUE])

get_service_import_public_key == Call(Get("/config/v1/import-key"))
create_import_key == Call(Post("/init/v1/import-key"))
delete_import_key == Call(Delete("/init/v1/import-key"))
create_sealing_key == Call(Post("/init/v1/sealing-key"))
rotate_sealing_key == Call(Post("/init/v1/sealing-key/rotate"))
list_sealing_keys == Call(Get("/init/v1/sealing-key"))

\* request_methods reads the file (prepare_payload_from_file) first.
backup_sealing_key(in) ==
    Then(<<prepare_payload_from_file(in)>>,
         [Post("/init/v1/sealing-key/backup") EXCEPT !.payload = in])
restore_sealing_key(in) ==
    Then(<<prepare_payload_from_file(in)>>,
         [Post("/init/v1/sealing-key/restore") EXCEPT !.payload = in])

create_signing_key == Call(Post("/init/v1/signing-key"))
list_signing_keys == Call(Get("/init/v1/signing-key/list"))

get_signing_key(id) ==
    Then(<<IF PyIntOk(id) THEN Proceed ELSE Raised>>,
         [Get("/init/v1/signing-key/%d") EXCEPT !.key = IntKey(id)])

\* Both chains are read before int() builds the URL.
upload_signing_key(id, single, multi) ==
    Then(<<prepare_binary_payload_from_file(single), prepare_binary_payload_from_file(multi),
           IF PyIntOk(id) THEN Proceed ELSE Raised>>,
         [Post("/init/v1/signing-key/upload/%d") EXCEPT !.key = IntKey(id),
                                                        !.files = {"singleRootChain", "multiRootChain"}])

activate_signing_key(id) ==
    Then(<<IF PyIntOk(id) THEN Proceed ELSE Raised>>,
         [Post("/init/v1/signing-key/activate/%d") EXCEPT !.key = IntKey(id)])

add_root_signing_pub_key(in) ==
    Then(<<prepare_binary_payload_from_file(in)>>,
         [Post("/init/v1/root-signing-key") EXCEPT !.files = {"file"}])

rotate_context_key == Call(Post("/init/v1/context-key/rotate"))
list_configuration == Call(Get("/config/v1/configuration"))

\* '{}'.format(config_id): the ID text as given.
get_configuration(id) == Call([Get("/config/v1/configuration/{}") EXCEPT !.key = id])
delete_configuration(id) == Call([Delete("/config/v1/configuration/{}") EXCEPT !.key = id])

app_user_create_initial(token, in) ==
    Then(<<PyOpen(in)>>,
         [Post("/user-init/v1/%s") EXCEPT !.key = PyStrArg(token), !.files = {"file"},
                                          !.nonAuth = TRUE])

\* Variant: non_auth=True copied from app_user_create_initial.
app_user_create_nonauth(in) ==
    Then(<<PyOpen(in)>>, [Post("/user/v1/manage") EXCEPT !.files = {"file"}, !.nonAuth = TRUE])

app_user_create(in) ==
    Then(<<PyOpen(in)>>, [Post("/user/v1/manage") EXCEPT !.files = {"file"}])

app_user_list == Call(Get("/user/v1/manage"))

\* payload = '{"role":"%s"}' % role, then int(user_id) for the URL.
app_user_role(op, id, role) ==
    Then(<<IF PyIntOk(id) THEN Proceed ELSE Raised>>,
         [Post(IF op = "role-set" THEN "/user/v1/manage/%d/role/set"
               ELSE "/user/v1/manage/%d/role/unset")
            EXCEPT !.key = IntKey(id), !.role = PyStrArg(role)])

app_user_delete(id) ==
    Then(<<IF PyIntOk(id) THEN Proceed ELSE Raised>>,
         [Delete("/user/v1/manage/%d") EXCEPT !.key = IntKey(id)])

app_communication_import(in) ==
    Then(<<PyOpen(in)>>, [Post("/user/v1/trusted-certificate/manage") EXCEPT !.files = {"file"}])

app_communication_list == Call(Get("/user/v1/trusted-certificate/manage"))

app_communication_delete(alias) ==
    Call([Delete("/user/v1/trusted-certificate/manage/%s") EXCEPT !.key = PyStrArg(alias)])

\* The one device item of the JSON body; a None argument leaves its key out.
prefetch_string_devices(family, uid, pdi, cert) ==
    Call([Post("/prov/v1/prefetch/devices")
            EXCEPT !.item = [familyId |-> family, uid |-> uid, pdi |-> pdi, deviceIdEr |-> cert]])

\* The query is sent only when both filters are given.
prefetch_status(uid, family) ==
    Call([Get("/prov/v1/prefetch/status") EXCEPT
            !.query = IF uid # None /\ family # None
                      THEN [familyId |-> family, uid |-> uid] ELSE None])

-----------------------------------------------------------------------------
(* RequestMethodMapper.request_methods, docopt arguments *)

\* The prefetch branch: the certificate argument is read when it names a
\* file and sent as it is otherwise; no request for a UID that fails
\* is_hex_x_bytes_long (a message is printed).
prefetch(a) ==
    LET cert == IF a.cert # None /\ check_file_soft(a.cert)
                THEN read_file(a.cert) ELSE a.cert
    IN  IF is_hex_x_bytes_long(a.uid, UidBytes)
        THEN prefetch_string_devices(a.family, a.uid, a.pdi, cert)
        ELSE Stop(Proceed)

\* The user and communication branches of request_methods.
user_methods(a) ==
    LET c == <<a.sec, a.op>> IN
    CASE c = <<"user", "create">>           -> app_user_create(a.input)
      [] c = <<"user", "initial-create">>   -> app_user_create_initial(a.token, a.input)
      [] c = <<"user", "list">>             -> app_user_list
      [] c \in {<<"user", "role-set">>, <<"user", "role-unset">>}
                                            -> app_user_role(a.op, a.id, a.role)
      [] c = <<"user", "delete">>           -> app_user_delete(a.id)
      [] c = <<"communication", "import">>  -> app_communication_import(a.input)
      [] c = <<"communication", "list">>    -> app_communication_list
      [] c = <<"communication", "delete">>  -> app_communication_delete(a.alias)

\* What request_methods does for the arguments a: the wrapper it calls,
\* with the arguments it takes from the dict.
request_methods(a) ==
    LET c == <<a.sec, a.op>> IN
    CASE a.sec = "health"                          -> health(a.detailed)
      [] c = <<"service-import-key", "create">>    -> create_import_key
      [] c = <<"service-import-key", "delete">>    -> delete_import_key
      [] c = <<"sealing-key", "create">>           -> create_sealing_key
      [] c = <<"sealing-key", "rotate">>           -> rotate_sealing_key
      [] c = <<"sealing-key", "list">>             -> list_sealing_keys
      [] c = <<"sealing-key", "backup">>           -> backup_sealing_key(a.input)
      [] c = <<"sealing-key", "restore">>          -> restore_sealing_key(a.input)
      [] c = <<"context-key", "rotate">>           -> rotate_context_key
      [] c = <<"signing-key", "create">>           -> create_signing_key
      [] c = <<"signing-key", "get">>              -> get_signing_key(a.id)
      [] c = <<"signing-key", "list">>             -> list_signing_keys
      [] c = <<"signing-key", "upload">>           -> upload_signing_key(a.id, a.single, a.multi)
      [] c = <<"signing-key", "activate">>         -> activate_signing_key(a.id)
      [] c = <<"root-signing-key", "add">>         -> add_root_signing_pub_key(a.input)
      [] c = <<"service-import-pub-key", "get">>   -> get_service_import_public_key
      [] c = <<"configuration", "list">>           -> list_configuration
      [] c = <<"configuration", "get">>            -> IF Truthy(a.id) THEN get_configuration(a.id)
                                                      ELSE Stop(Proceed)
      [] c = <<"configuration", "delete">>         -> IF Truthy(a.id) THEN delete_configuration(a.id)
                                                      ELSE Stop(Proceed)
      [] a.sec \in {"user", "communication"}       -> user_methods(a)
      [] a.sec = "prefetch"                        -> prefetch(a)
      [] a.sec = "prefetch-status"                 -> prefetch_status(a.uid, a.family)

\* The wrappers that hand what perform_request returned to
\* save_data_to_file(output_path, data).
SavesOutput(c) ==
    c \in {<<"sealing-key", "backup">>, <<"signing-key", "get">>,
           <<"service-import-pub-key", "get">>, <<"user", "create">>,
           <<"user", "initial-create">>}

-----------------------------------------------------------------------------

Requests ==
    [method : {"GET", "POST", "DELETE"}, url : STRING, key : Seq(STRING) \cup {None},
     query : [familyId : FamilyInputs, uid : UidInputs] \cup {None},
     payload : FileInputs \cup {None},
     files : SUBSET {"file", "singleRootChain", "multiRootChain"},
     role : Seq(STRING) \cup {None},
     item : [familyId : FamilyInputs, uid : UidInputs, pdi : Opt(PdiInputs),
             deviceIdEr : STRING \cup {None}] \cup {None},
     nonAuth : BOOLEAN]

TypeOK ==
    /\ args \in DocoptArgs
    /\ pc \in {"dispatch", "sent", "save", "done"}
    /\ request \in Requests \cup {None}
    /\ outcome \in Outcomes \cup {None}
    /\ written \in OutputInputs \cup {None}
    /\ exitStatus \in {0, 1, None}

\* Commands.run with docopt arguments: handle_docopt_command builds the
\* Requester with finish_on_error = True and calls request_methods.
Init ==
    /\ args \in DocoptArgs
    /\ pc = "dispatch"
    /\ request = None
    /\ outcome = None
    /\ written = None
    /\ exitStatus = None

\* request_methods up to perform_request: the wrapper calls it, or stops
\* before: an exception reaches Commands.run, which prints it and returns
\* (status 0); sys.exit ends with status 1; a refused UID only prints.
dispatch ==
    LET r == request_methods(args) IN
    /\ pc = "dispatch"
    /\ IF r.req # None
       THEN pc' = "sent" /\ request' = r.req /\ UNCHANGED exitStatus
       ELSE pc' = "done" /\ exitStatus' = (IF r.step = SysExit THEN 1 ELSE 0)
            /\ UNCHANGED request
    /\ UNCHANGED <<args, outcome, written>>

\* perform_request (Requester.tla) in finish_on_error mode: it returns
\* res.content after a 200, with a body ("data") or empty (b''), and None
\* after a 201 with a body ("created") or a service error with a "status"
\* object; it ends the process with exit(1) after an exception (a 2xx
\* without a body other than 200 among them), with sys.exit when a
\* certificate file is missing.
perform_request(o) ==
    /\ pc = "sent"
    /\ outcome' = o
    /\ IF o \in {"exit1", "sysexit"}
       THEN pc' = "done" /\ exitStatus' = 1
       ELSE pc' = "save" /\ UNCHANGED exitStatus
    /\ UNCHANGED <<args, request, written>>

\* save_data_to_file writes only when both are set.
save_data_to_file(path, data) == path # None /\ data # None

\* What perform_request returned.
Returned(o) == CASE o = "data" -> "body" [] o = "empty" -> "" [] OTHER -> None

\* Variant: save_data_to_file(data, output_path), the arguments swapped.
finish_swapped ==
    /\ pc = "save"
    /\ written' = IF SavesOutput(<<args.sec, args.op>>)
                     /\ save_data_to_file(args.output, Returned(outcome))
                  THEN Returned(outcome) ELSE None
    /\ pc' = "done"
    /\ exitStatus' = 0
    /\ UNCHANGED <<args, request, outcome>>

\* The wrapper returns, and so do request_methods and Commands.run.
finish ==
    /\ pc = "save"
    /\ written' = IF SavesOutput(<<args.sec, args.op>>)
                     /\ save_data_to_file(args.output, Returned(outcome))
                  THEN args.output ELSE None
    /\ pc' = "done"
    /\ exitStatus' = 0
    /\ UNCHANGED <<args, request, outcome>>

Next ==
    \/ dispatch
    \/ \E o \in Outcomes : perform_request(o)
    \/ finish

\* A scripted command ends: there is no prompt to wait at.
Spec == Init /\ [][Next]_vars

-----------------------------------------------------------------------------

\* Spec 6: every request is made with the client certificate (non_auth =
\* False) except those to the two unauthenticated endpoints, the health
\* check and the bootstrap creation of the first user.
UnauthenticatedOnlyBootstrap ==
    request # None =>
        (request.nonAuth <=> request.url \in {"/health", "/health/sla", "/user-init/v1/%s"})

\* Spec 7: a missing input document is a PrecursorError: a request that
\* carries a file (a payload read from --input or a multipart upload) goes
\* out only when every file the command names exists.
NoRequestWithoutPrecursor ==
    (request # None /\ (request.payload # None \/ request.files # {})) =>
        \A f \in {args.input, args.single, args.multi} : f \in {None, "ok"}

\* Spec 6 and 7 for a scripted command: a run that ends with status 0 sent
\* the request the operator asked for, with every argument given and valid
\* (no missing value sent as the text "None", a prefetch UID that decodes
\* to UidBytes bytes, a prefetch-status query with each filter given), and
\* the service answered 2xx; a command that saves its result to --output
\* wrote the body the service sent.  A missing or invalid argument, a missing
\* file or a service error must end with a non-zero status, which is all
\* a calling script sees.
OneShotCommandAsAsked ==
    (pc = "done" /\ exitStatus = 0) =>
        /\ request # None
        /\ outcome \in {"data", "empty", "created"}
        /\ (SavesOutput(<<args.sec, args.op>>) /\ args.output # None
              /\ outcome \in {"data", "created"}) => written = args.output
        /\ request.key # NoneStr /\ request.role # NoneStr
        /\ request.item # None => FromHexLen(request.item.uid) = UidBytes
        /\ args.sec = "prefetch-status" =>
               request.query = IF args.uid = None /\ args.family = None THEN None
                               ELSE [familyId |-> args.family, uid |-> args.uid]
====
