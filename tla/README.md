# TLA+ models of the BKPS admin client

This directory holds TLA+ models of the Black Key Provisioning Service admin
client (`src/admintools/bkps/bkps`), the TLC configurations that check them,
and `PROJECT.json`, which records every component, run, fault variant
("mutant"), source mapping, finding and hazard.

## 1. The system

The client is a single-threaded Python CLI. It runs in one of two modes:

* **docopt mode** (`runner.py <command> ...`): one command, then the process
  ends. The `Requester` is built with `finish_on_error = True`, so a transport
  error ends the process with `exit(1)`.
* **interactive mode** (`runner.py` with no command): `Commands.start_command_loop`
  prompts for a section, then `Commands.section_loop` calls
  `CliMapper.get_requests_params` and `RequestMethodMapper.request_methods`
  again and again. Here `finish_on_error = False`: a transport error makes
  `perform_request` return `None`.

### Components, their state and operations

| Component (spec name) | Source | State | Operations |
|---|---|---|---|
| Validator | `Modules/Utilities.py` | none (pure) | `is_hex`, `contains_hex_encoded_length_one_of`, `check_number(_non_negative)`, `check_list_numbers`, `parse_list_numbers`, `split_array`, `verify_hex_input`, `is_hex_x_bytes_long`, `check_file` (exits) |
| ConfigurationDocument | `Configurator.py` `ConfigurationDTO` | the DTO fields | `from_json` (copies a JSON document with no checks), `from_user` (prompt loops, one per field) |
| ConfigurationAssembler | `Configurator.py` `Configurator` | **class-level** dicts `aes_key_dto`, `qek_dto`, `confidentialData`, `overbuild_dto`, `black_list_dto`, `e_fuses_public_dto`, `attestation_config`, `init_configuration`; per-instance parsed lists | `__init__` → `verify()` (exits on the first failed check), `prepare()` (import-key fetch, encryption, assembly, `json.dumps`) |
| HybridEncryptor | `Modules/Encryptor.py` | one-time AES key, the import key PEM | `__init__` (draws the key), `encrypt` (AES-GCM, draws a nonce per call), `get_encrypted_key` (RSA-OAEP/SHA-384, randomized per call) |
| SecureTransport | `Modules/Requester.py` `perform_request` | `session`, `finish_on_error` | `check_file` of CA/cert/key, proxy, passphrase probe, send, status/body classification, `finally: session.close()` |
| Endpoint wrappers | `Modules/Requester.py` (other methods) | none | one `perform_request` per REST endpoint (URL, `int()`/`'%s'` keys, payload or multipart files, `non_auth`); `prepare_(binary_)payload_from_file`; `save_data_to_file` |
| Dispatcher | `Modules/RequestMethodMapper.py` | none | maps a params dict to one Requester call; builds DTO + Configurator for configuration create/update; prefetch UID check |
| Command loop | `Modules/Commands.py` | `config`, `requestMethodMapper` | `run` (catches every `Exception` and returns), `start_command_loop`, `handle`, `section_loop`, `init_requests` |
| Interactive parameter entry | `Modules/CliMapper.py` | none | `get_requests_params`, `section_loop_short`, `input_role` |
| Entry point | `runner.py`, `Commands.run` | none | docopt parsing against the usage lines; `run` catches every exception, prints it and returns |

### How they interact

`RequestMethodMapper` (configuration create/update) reads the JSON file or
runs `from_user`, builds a `Configurator` (whose constructor runs `verify`),
calls `prepare` and then `create_configuration`/`update_configuration`.
`prepare` makes one silent `perform_request` (GET `/config/v1/import-key`)
when `import_mode == 'ENCRYPTED'` and hands the key to a fresh `Encryptor`.
All three share state in only one way: the Configurator's class-level dicts,
which survive from one command to the next in the interactive loop.

Termination is spread out: `sys.exit()` in `verify`, `from_json`, `prepare`
and `check_file`; `exit(1)` in `perform_request` under `finish_on_error`;
`exit(0)` when the operator types `exit`; and any other exception unwinds to
`Commands.run`, which prints it and returns, ending the process.

### What is hard here

There are no threads. What is hard is **sequence**: state that survives
from one command to the next, the order of validation and network calls,
partial failure after a request went out, and the two failure modes. The
hazards are listed one by one, each at its source line, in `PROJECT.json`
under `"hazards"`. In short:

* the class-level dicts of `Configurator` carry a QEK and wrapped keys from
  one command into the next (interactive mode);
* `verify` compares import mode case-insensitively, `prepare` case-sensitively;
* `get_encrypted_key` re-runs randomized RSA-OAEP per field, while the spec
  says both fields share one wrapped key;
* the AES key and the QEK share one AES-GCM key, so nonces must differ;
* the hex and length checks work on the text `int(v, 16)` accepts (a `0x`
  prefix, sign, underscores, spaces), not on the bytes it decodes to; a
  mistyped QEK silently becomes `None`; JSON block lists are joined and
  split again, which alters build-ID lists;
* `is_hex` accepts odd-length hex, which fails only after the import-key
  fetch (ENCRYPTED) or is submitted as-is (PLAINTEXT);
* in the interactive loop, every `sys.exit` and exception in an inner
  component ends the whole session;
* `perform_request` treats an empty 2xx other than 200 as an error, has no
  fallback for an error body that is not JSON, and probes for an encrypted
  client key only with urllib3 >= 1.25.3;
* `section_loop` re-uses its first command forever (`initial_cmf`).
* a scripted command's exit status is all a calling script sees, but
  `Commands.run` swallows exceptions, a refused UID only prints a message,
  and a service error returns `None`: each of them exits with status 0.
  Optional usage arguments reach `'%s' % v` as `None`.

### What makes each component correct

* Validator and ConfigurationDocument: what `verify` accepts is what the
  spec allows (hex that decodes, 256/1024 bytes, a QEK with a key name),
  no token of an accepted list is dropped, JSON lists survive the
  `",".join` / `split(",")` round trip, and a document typed field by field
  always passes `verify`.
* ConfigurationDocument/Assembler: no request goes out for a malformed
  document; the body carries this command's secrets and only them; ENCRYPTED
  means encrypted; every envelope opens with the wrapped key beside it; the
  nonce is never reused under one key; a QEK has a key name.
* SecureTransport: CA (and cert/key for authenticated calls) checked before
  any connection; the session is closed on every exit path; 2xx is success;
  recoverable mode never exits the process on transport errors.
* Command loop: the interactive session survives a failed command; `up` and
  `exit` are honoured; every prompt is eventually answered or the loop
  waits for input (no busy loop).

## 2. Modules and runs

### `Configurator.tla` (built) — the configuration pipeline

Models `ConfigurationDTO`, `Configurator.verify`/`prepare`, `Encryptor` and
the two requests of the pipeline, over the series of configuration commands
one process runs.

* **State.** `mode` (docopt or interactive), `phase` (idle → dto → verified →
  prepared → idle, or exited), `cmd`, `dto`, `lists` (the Configurator's parsed
  lists), the three class-level dicts `aesKeyDto`, `qekDto` and
  `confidentialData` (a TLA+ function whose domain is the dict's keys),
  `rnd` (random draws so far), `payload` (the body `prepare` returned),
  `requests` (a log of requests sent) and `exitCause`.
* **Actions.** `from_json`, `from_user`, `verify`, `prepare` (with its helpers
  `PrepareEncrypted`, `PreparePlaintext` and `Assemble`), `submit` and `quit`.
  Each action is one Python method. It has the method's guards and its
  error exits (`sys.exit`, an exception reaching `Commands.run`, `exit(1)`).
* **Data abstraction.** A hex value is a model value (`a1`, `q1`) or a
  class: `NonHex`, `OddHex`, or `"B255"`/`"B256"`/`"B1024"` (the bytes it
  decodes to). A comma-separated list is the sequence `split(',')` gives.
  Ciphertexts are records naming the key, the nonce and the plaintext. Each
  `get_random_bytes` draw takes the next value of `rnd`, because fresh
  randomness is all the properties use. Class-level dicts that `prepare`
  overwrites key by key are folded into `payload`. `requireIidUds`,
  `testModeSecrets` and `overbuild.max` are passed through unchanged, so
  they are left out; the `int()` that can raise on `overbuild.max` is kept.
* **Transport.** Each request ends in one of the outcomes `perform_request`
  can produce in the current mode. These are a returned value, `None`,
  `exit(1)` (docopt only) or `sys.exit` from `check_file`. Later sittings
  will replace them with `Requester.tla`.

Runs (`MCConfigurator` supplies model values and list domains):

| run | cfg | expect | checks |
|---|---|---|---|
| configurator_safety | `Configurator_safety.cfg` | pass | `TypeOK`, `EnvelopesOpen`, `OwnAesKey`, `NoncesDistinct`, over 2 commands in both modes and all input classes (about 444k states) |
| configurator_interactive | `Configurator_interactive.cfg` | violation | `InteractiveCommandsIndependent` (`[]NoStaleKeyMaterial /\ SessionSurvivesFailedCommand`): a QEK from the first interactive command shows up in the second body, and an invalid document ends the whole interactive session. With `Names = {"cfg"}` only the first part is violated. With `QekValues = {None}` and `ImportModes = {"PLAINTEXT"}` only the second is. |
| configurator_encrypted | `Configurator_encrypted.cfg` | violation | `EncryptedAsSpecified`: JSON `"importMode": "encrypted"` is verified but the AES key is sent in the clear, and `encryptedAesKey`/`encryptedQek` are two different OAEP outputs (the second alone reproduces with `ImportModes = {"ENCRYPTED"}`) |

**Bounds.** `MaxCommands = 2` is the smallest bound at which state can
leak from one command to the next. A third command only repeats what the
second can already reach, because the dicts hold at most one older value
per key. Each input domain holds one value per class the code branches on.
`CHECK_DEADLOCK FALSE` is there because the process really does end: every
behaviour stops in `exited` (through `sys.exit`, `exit`, or the end of a
docopt run).

**Fairness.** None: every Configurator run checks safety only.

### `SecureTransport.tla` (built): what the transport promises

This is the abstract machine of spec §4.5, one request after another:
`IDLE → SESSION_OPEN → SENT → {SUCCEEDED, FAILED} → CLOSED`. Besides the
state it keeps `precursors` (whether the files this request needs exist),
`result` (what the caller gets), `alive` and `failMode`. The rules are:

* a request is sent only when its precursors exist;
* a missing precursor ends the process;
* a failure returns "no result";
* only a finish-on-error transport may end the process after a failure,
  and only when the session is released.

It models the spec, not the code, so it is not in the map.

### `Requester.tla` (built): `perform_request`

* **State.** `env` holds the files present, the kind of client key, the
  urllib3 generation and whether `service_port` parses. It is fixed for the
  process. The other variables are:
  * `finishOnError`;
  * `pc`, the point in `perform_request`: `idle`, `open` (Session created),
    `try` (files checked), `sent` (response held), `return`, `except`;
  * `session`, `call` (`non_auth`, `silent`), `resp`, `retval`, `calls`
    and `exitCause`.
* **Actions.** Each action is one stretch of code between two points where
  control can leave the function:
  * `Open` is lines 78-83;
  * `CheckFiles` is lines 84-92, where `sys.exit` is outside the `try`;
  * `Send` is lines 94-106: the passphrase probe, `int(port)`, or a network
    error raises, or a response arrives;
  * `Display` is lines 108-137: the display code may raise, or the call
    returns;
  * `Finally` is lines 138-143: `exit(1)` or return `None`, then `close()`.
* **Refinement.** `T == INSTANCE SecureTransport WITH ...` maps `pc`,
  `session` and `retval` to the abstract state. A process that has ended
  maps to `CLOSED`, because ending the process releases the Session. On
  the `check_file` path no connection was ever opened.

| run | cfg | expect | checks |
|---|---|---|---|
| requester_safety | `Requester_safety.cfg` | pass | `TypeOK` and `TransportRefinement`, over any missing files, both modes, every key/urllib3/port case and every response class (5.7k states) |
| requester_errors | `Requester_errors.cfg` | violation | `TransportErrorsAsSpecified` (`ResponseHandled /\ EncryptedKeyRefused`). A 201/204 with an empty body, or a non-JSON error body (a proxy page), raises in the display code, and docopt exits with 1. With urllib3 < 1.25.3, an encrypted key is used (OpenSSL prompts) instead of being refused. With `KeyKinds = {"plain"}`, only the first part can be violated. With `Responses` narrowed to 200 responses, only the second can. |

**Bounds.** `MaxCalls = 2` is the smallest bound at which a session left
open by one call would meet the next call. The response set holds one
response per branch of the display code: 200 with and without a body,
201 with and without a body, 204, an error whose JSON body has a `status`
field, a JSON error without one, and a non-JSON error.

### `CommandLoop.tla` (built): the interactive loop and the dispatcher

Models `Commands.handle` and `section_loop`, `CliMapper.get_requests_params`
with `section_loop_short` and `assign_params_value`, and
`RequestMethodMapper.request_methods` as the function from a params dict to
the one request it makes.

* **State.** `level` is where control is: a prompt (`main`, `sub`,
  `details`, `output`, `fields`), program code (`loop`, `dispatch`) or
  `ended`. `section` is `initial_cmf`; `params` is the set of keys set in the
  params dict; `choice`, `id` and `uidOk` are the values the prompts
  returned. Three variables record history for the properties: `chosen` (the
  request the operator picked), `request` (the one `request_methods` made)
  and `upPending`/`lastInput`.
* **Actions.** The operator's answers are `handle`, `section_loop_short`,
  `input_output`, `input_details` and `input_prefetch`, plus `interrupt`
  (Ctrl-C). The program's steps are `section_loop` (one iteration, with
  `variable = initial_cmf`) and `dispatch` (`callback(params)`; the request
  may end the process).
* **Data abstraction.** A params dict is its set of keys. The dispatcher is
  the order of its `elif` tests per section (`DispatchOrder`) plus the
  arguments it reads (`ArgsRead`). File paths, roles and family IDs are
  passed through unchanged and left out; an output path is a model value or
  the menu word `list`, the one that collides.

| run | cfg | expect | checks |
|---|---|---|---|
| commandloop_safety | `CommandLoop_safety.cfg` | pass | `TypeOK` over all 12 sections; it is the passing run that fires every operator answer and program step (the loop's questions are asked by the two violation runs below), every menu answer, output paths `out.json`/`list`, IDs 0 and 1 |
| commandloop_dispatch | `CommandLoop_dispatch.cfg` | violation | `DispatchMatchesChoice`: the request made is not the one chosen (backup to a path named `list`, communication `import`, configuration get/delete ID 0, prefetch PDI dropped, initial-create without TOKEN); restricting `Sections` to one section reproduces each |
| commandloop_leave | `CommandLoop_leave.cfg` | violation | `LeavingReturnsToMain` under `FairSpec`: `up` re-enters the same section and an unknown main-menu answer spins without input, both because `initial_cmf` is used on every iteration |

**Bounds.** `Ids = {0, 1}` are the falsy and truthy IDs. The output paths
are one ordinary path and the one that is also a menu word. Every section
and every option of `section_loop_short` is enumerated in the safety run.

**Fairness.** `FairSpec == Spec /\ WF_cvars(Program)`. The program is
single threaded: between two `input()` calls it runs without waiting, so
its steps are weakly fair. The operator may never answer, so operator
actions get no fairness. `CHECK_DEADLOCK FALSE`: the process really ends
(`exit`, Ctrl-C, a fatal request).

### `Validator.tla` and `DocumentEntry.tla` (built): what `verify` accepts

`Validator.tla` holds the helpers of `Modules/Utilities.py` as pure
operators over strings. A Python `str` is a sequence of one-character
strings. The helpers are thin wrappers around Python builtins, so the
builtins are modelled by what they do, not as the identity:

* `PyInt(s, base)` is `int(s, base)`: surrounding whitespace, a sign, a `0x`
  prefix in base 16 (an underscore may follow it), and single underscores
  between digits. It is `None` where Python raises `ValueError`.
* `Split` is `str.split`, `JoinSeq` is `sep.join`, and `PyStr` is `str(int)`.
* `FromHexLen` is `bytes.fromhex`, which `Encryptor` applies to the values.
  It is the reference for "hex encoded bytes" in the properties, and is not
  part of the code's checks.

`DocumentEntry.tla` models how a `ConfigurationDTO` gets its secrets and
block lists, and what `Configurator.verify` then does with them.

* **State.**
  * `src`: `user` or `json`.
  * `focus`: the field whose text varies.
  * `pc`: the prompt the DTO construction is at.
  * `typed`: the last string the operator typed.
  * `typedQek`: what was typed at the QEK prompt.
  * `doc`: the DTO fields.
  * `jsonDoc`: the JSON document.
  * `lists`: the lists `verify` parsed.
  * `exitCause`.
* **Actions.**
  * One action per `input_*` prompt of `from_user`. Each keeps its own loop,
    or its lack of one: `input_qek_value` does not loop, and a non-hex
    E-FUSES answer raises `TypeError`.
  * `from_json`, with its `",".join(map(str, ...))` of the block lists.
  * `verify`, which checks the fields and stores the lists. `prepare` is
    modelled in `Configurator.tla`, so the module stops where `prepare`
    starts.
* **Focus abstraction.** The code checks each field without looking at the
  others. So a behaviour varies the text of one field, `focus`, over the
  whole input domain, and gives every other field one valid value. This
  keeps the state space to the sum of the fields' domains instead of their
  product. The settings prompts (import mode, name, PUF type, Y/N answers,
  URL, overbuild counter) loop until valid, and no property here tells
  their values apart, so they are one step.

`MCDocumentEntry` supplies the domains:

* every hex string of up to 4 characters over `0 a x - space _ g`;
* every list string of up to 3 characters over `1 0 - , _ space a`;
* JSON arrays of up to 2 ints from {0, 7, 10, -1};
* build-ID arrays of up to 2 strings from {"", "b", "b,c"}.

These bounds reach every branch of `int()`: prefix, sign, underscore,
whitespace and an invalid digit. They also reach every branch of the
helpers: odd length, empty string, the `[""]` sentinel, a negative number
and a multi-digit number. The E-FUSES lengths {256, 1024} bytes are scaled
to {1, 2}, because the check is the same comparison of `len(s)` with
`2 * n`. `CHECK_DEADLOCK FALSE`: every behaviour ends at `verified` or
`exited`. No fairness: only safety is checked.

| run | cfg | expect | checks |
|---|---|---|---|
| documententry_safety | `DocumentEntry_safety.cfg` | pass | `TypeOK`; `UserEntryPassesVerify` (a document typed field by field is never refused by `verify`); `NoTokenDropped` (`parse_list_numbers` drops no token of a list `verify` accepted); `JsonNumbersRoundTrip` (a JSON list of non-negative ints reaches the body unchanged, a negative one is refused). About 62k states. |
| documententry_accepts | `DocumentEntry_accepts.cfg` | violation | `AcceptedDocumentAsSpecified`: `verify` accepts documents the spec calls invalid or altered. |

`AcceptedDocumentAsSpecified` breaks in several ways. Each one reproduces
alone when `Focus` (and `Sources`) in `DocumentEntry_accepts.cfg` is
narrowed to one value:

* `Focus = {"aes"}`: an odd-length or `0x`-prefixed AES key passes
  `is_hex`.
* `Focus = {"qek"}`, `Sources = {"user"}`: a mistyped QEK silently becomes
  `None`.
* `Focus = {"qek"}`, `Sources = {"json"}`: a QEK with an empty `keyName`.
* `Focus = {"efusesValue"}`: `0x12` has 4 characters, so it passes as
  2 bytes, although `bytes.fromhex` rejects it.
* `Focus = {"sdmBuildIdStrings"}`, `Sources = {"json"}`: `[]` becomes
  `[""]`, and `["b,c"]` becomes `["b", "c"]`.

### `DocoptCommand.tla` (built): one scripted command

This module models one docopt invocation from start to end:

1. `runner.py` parses the command line with docopt.
2. `Commands.run` and `handle_docopt_command` build the `Requester` with
   `finish_on_error = True`.
3. `request_methods` picks the branch for the command.
4. The endpoint wrapper of `Requester.py` builds the request and calls
   `perform_request`.
5. The wrapper may call `save_data_to_file`.
6. The process exits with some status.

The parts of the model:

* **State.**
  * `args`: the docopt dict.
  * `pc`: where the command is.
  * `request`: the arguments `perform_request` was called with.
  * `outcome`: what `perform_request` did.
  * `written`: the output file, if one was written.
  * `exitStatus`.
* **Arguments.** `DocoptArgs` builds one set of argument records per usage
  line of `runner.py`. An argument in `(...)` is required and takes a value
  from its domain. An argument in `[...]` may also be `None`.
  `configuration create`/`update` are left out: they are
  `Configurator.tla`'s.
* **Wrappers.** Each wrapper is one operator. It gives the request it makes
  (method, URL template, the text it puts into the URL, payload, multipart
  fields, role body, prefetch item and query, `non_auth`). If something
  stops the wrapper before `perform_request`, it gives the first such step
  instead:
  * `check_file` calls `sys.exit`, which gives status 1;
  * `open()` or `int()` raises, `Commands.run` prints the exception and
    returns, which gives status 0.

  The conversions the wrappers make are modelled by what they do:
  * `'%d' % int(v)` uses `PyInt` and `PyStr` from `Validator`;
  * `'%s' % None` is the text `None`;
  * the prefetch UID check is `is_hex_x_bytes_long` on the UID text.
* **Transport.** `perform_request` is one step. Its outcome is one of the
  results `Requester.tla` gives in finish-on-error mode:
  * the body of a 200, or the empty body of a 200;
  * `None` after a 201 with a body, or after a service error;
  * `exit(1)`, or `sys.exit` for a missing certificate.

  The run `requester_safety` checks that `Requester` implements the
  transport promise (`SecureTransport`). That is why one step with these
  outcomes is enough here.

`MCDocoptCommand` supplies the argument values, with `UidBytes = 2` in
place of 8:

* IDs `7`, `07`, `x` and the empty string;
* UIDs `0a0b` (valid), `0x0b` (passes the character count but does not
  decode), `0a0` and `0a`;
* files that exist and files that do not.

Every one of the 133 initial states is a distinct usage line with
distinct values. `CHECK_DEADLOCK FALSE`: a scripted command ends.

| run | cfg | expect | checks |
|---|---|---|---|
| docopt_safety | `DocoptCommand_safety.cfg` | pass | `TypeOK`; `UnauthenticatedOnlyBootstrap` (only `/health` and `/user-init` go out without the client certificate); `NoRequestWithoutPrecursor` (no request carrying a file goes out when a file the command names is missing) |
| docopt_status | `DocoptCommand_status.cfg` | violation | `OneShotCommandAsAsked`: a command that ends with status 0 did not necessarily do what was asked. |

The property `OneShotCommandAsAsked` says: if a command ends with status
0, then it sent the request with every argument given and valid, the
service answered 2xx, and the body was saved when `--output` asked for
it. TLC reports the first counterexample it finds: a refused UID, for
which the code only prints a message. Each of the other ways this
property fails is also reachable:

* a `0x`-prefixed UID is sent;
* a missing `--role` is sent as `{"role":"None"}`;
* a missing alias makes the command send `DELETE .../manage/None`;
* `prefetch-status` with one filter drops it;
* a missing `-i` for `user create` is caught by `Commands.run`, which
  exits 0;
* `--id x` raises `ValueError`, which is also caught, so the exit status
  is 0;
* a service error returns `None`, and the command exits 0;
* a 201 body is not saved to `--output`.

### Further work

* **`BkpsClient.tla`**: `Configurator` composed with `Requester`, so that
  the abstract transport outcomes are `Requester`'s actions. It was not
  built. `Requester` is already shown to implement `SecureTransport`, and
  the outcome sets that `Configurator` and `DocoptCommand` use are the
  results `SecureTransport` allows. The composition would multiply two
  state spaces without adding a new question.
* The interactive prefetch in `CommandLoop` still treats the UID check as
  a boolean. The docopt path checks the same operator on text.

### Not modelled

* docopt's own parsing, `-h`/`--version` and the help texts: a library
  and text output. The usage lines themselves are `DocoptArgs`.
* `Commands.load_json_config` (a missing `runner-config.json` ends with
  `sys.exit`): a file read before anything else happens. The models
  start with the configuration loaded.
* Logging and debug output (`enable_debug`, `print`): no property is about
  them.
* The cryptography itself (AES-GCM, RSA-OAEP, SHA-384): it is abstracted to
  records. A round trip is correct by construction of the records. What is
  checked is which key, nonce and wrapped key go together.
* Files and sockets: file existence and request outcomes are inputs.
