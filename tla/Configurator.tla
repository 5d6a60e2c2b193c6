---------------------------- MODULE Configurator ----------------------------
(***************************************************************************)
(* The configuration create/update pipeline of the BKPS admin client       *)
(* (Modules/Configurator.py, Modules/Encryptor.py and the part of          *)
(* Modules/RequestMethodMapper.py that drives them).                      *)
(*                                                                         *)
(* One process runs a series of configuration commands: a ConfigurationDTO *)
(* is built (from_json or from_user), Configurator.__init__ runs verify(), *)
(* prepare() fetches the service import key when the document asks for     *)
(* ENCRYPTED import, encrypts the secrets and assembles the body, and the  *)
(* body is submitted.  In docopt mode the process runs one command; in     *)
(* the interactive loop it runs commands until the operator exits.         *)
(*                                                                         *)
(* Configurator keeps aes_key_dto, qek_dto and confidentialData as CLASS   *)
(* attributes (Configurator.py:262-272) and mutates them in place, so they *)
(* are modelled as process-wide variables that outlive a command.  The    *)
(* other class-level dicts are overwritten key by key on every prepare()   *)
(* and are folded into the assembled payload.                              *)
(*                                                                         *)
(* Data is abstracted to what the checks tell apart: a hex value is a     *)
(* model value or one of the classes NonHex, OddHex (hex with an odd       *)
(* number of digits), "B255"/"B256"/"B1024" (hex decoding to that many     *)
(* bytes); a comma separated list is the sequence split(',') yields.       *)
(* Ciphertexts are records naming key, nonce and plaintext; every          *)
(* get_random_bytes draw takes the next value of a counter.                *)
(***************************************************************************)
EXTENDS Integers, Sequences, FiniteSets, TLC

CONSTANTS
    None,             \* Python None
    Empty,            \* the empty string
    NonHex,           \* a string int(v, 16) rejects
    OddHex,           \* hex with an odd number of digits: bytes.fromhex rejects it
    ImportPub,        \* the PEM the service returns from /config/v1/import-key
    ImportModes,      \* confidentialData.importMode values a document may carry
    Names,
    PufTypes,
    AesValues,        \* aesKey.value: key model values, None, Empty, NonHex, OddHex
    QekValues,        \* qek.value: key model values, None, Empty, NonHex, OddHex
    KeyNames,
    TestPrograms,
    EfusesValues,     \* None, NonHex, "B255", "B256", "B1024"
    CorimUrls,        \* None, Empty, "short", "long" (longer than 255 chars)
    OverbuildValues,  \* "int" (an integer) or a value int() rejects
    NumLists,         \* None or split(',') of romVersions / sdmSvns
    BuildIdLists,     \* None or split(',') of sdmBuildIdStrings
    Modes,            \* SUBSET {"docopt", "interactive"}
    MaxCommands       \* configuration commands one process may run

ASSUME MaxCommands \in Nat \ {0}
ASSUME Modes \subseteq {"docopt", "interactive"}

VARIABLES
    mode,              \* docopt (finish_on_error) or interactive loop
    phase,             \* where the current command is
    cmd,               \* configuration commands started so far
    dto,               \* ConfigurationDTO of the current command
    lists,             \* Configurator.rom_versions / sdm_build_id_strings / sdm_svns
    aesKeyDto,         \* Configurator.aes_key_dto   (class attribute)
    qekDto,            \* Configurator.qek_dto       (class attribute)
    confidentialData,  \* Configurator.confidentialData (class attribute)
    rnd,               \* get_random_bytes draws so far
    payload,           \* the body prepare() returned for the current command
    requests,          \* requests sent so far: [kind, cmd]
    exitCause          \* why the process ended, None while it runs

vars == <<mode, phase, cmd, dto, lists, aesKeyDto, qekDto, confidentialData,
          rnd, payload, requests, exitCause>>

-----------------------------------------------------------------------------
(* Python values *)

\* Truthiness of the strings and None the code tests with `if x` / `not x`.
Truthy(v) == v \notin {None, Empty}

\* str.upper() on the values the model uses.
UpperOf == ("plaintext" :> "PLAINTEXT") @@ ("encrypted" :> "ENCRYPTED")
           @@ ("iid" :> "IID") @@ ("efuse" :> "EFUSE")
Upper(s) == IF s \in DOMAIN UpperOf THEN UpperOf[s] ELSE s

\* Python dict assignment d[k] = v on a function standing for the dict.
Put(d, k, v) == (k :> v) @@ d
EmptyDict == [k \in {} |-> None]

supported_puf_types == {"IID", "IIDUSER", "EFUSE"}

\* Utilities.is_hex: int(v, 16) succeeds.
is_hex(v) == v \notin {None, Empty, NonHex}

\* bytes.fromhex succeeds (even number of hex digits).
FromHexOk(v) == is_hex(v) /\ v # OddHex

\* len(v) / 2 for the length classes of the efuses values.
HexEncodedLength == ("B255" :> 255) @@ ("B256" :> 256) @@ ("B1024" :> 1024)

\* Utilities.contains_hex_encoded_length_one_of
contains_hex_encoded_length_one_of(v, lengths) ==
    v \in DOMAIN HexEncodedLength /\ HexEncodedLength[v] \in lengths

\* int(t) for the list tokens the model uses; other tokens raise ValueError.
IntOf == ("0" :> 0) @@ ("1" :> 1) @@ ("3" :> 3) @@ ("-2" :> -2)

\* Utilities.split_array
split_array(s) == IF s = None THEN <<>> ELSE s

\* Utilities.check_list_numbers
check_list_numbers(l) ==
    \/ l = <<"">>
    \/ \A i \in DOMAIN l : l[i] \in DOMAIN IntOf /\ IntOf[l[i]] >= 0

\* Utilities.parse_list_numbers: tokens int() rejects are dropped.
parse_list_numbers(l) ==
    LET ints == SelectSeq(l, LAMBDA t : t \in DOMAIN IntOf)
    IN  [i \in DOMAIN ints |-> IntOf[ints[i]]]

-----------------------------------------------------------------------------
(* Documents and the crypto values *)

Docs == [importMode : ImportModes, name : Names, pufType : PufTypes,
         aes : AesValues, qek : QekValues, keyName : KeyNames,
         testProgram : TestPrograms, efusesValue : EfusesValues,
         efusesMask : EfusesValues, corimUrl : CorimUrls,
         overbuild : OverbuildValues, romVersions : NumLists,
         sdmSvns : NumLists, sdmBuildIdStrings : BuildIdLists]

\* The documents ConfigurationDTO.from_user can return: each input_* loop
\* repeats until its own check passes, input_qek_value does not repeat and
\* turns an empty or non-hex entry into None, and key_name is only asked
\* for when a QEK was given.
UserDocs ==
    {d \in Docs :
        /\ d.importMode \in {"PLAINTEXT", "ENCRYPTED"}
        /\ Truthy(d.name)
        /\ d.pufType \in supported_puf_types
        /\ is_hex(d.aes)
        /\ d.qek = None \/ is_hex(d.qek)
        /\ Truthy(d.qek) <=> Truthy(d.keyName)
        /\ d.keyName # Empty
        /\ d.testProgram \in BOOLEAN
        /\ contains_hex_encoded_length_one_of(d.efusesValue, {256, 1024})
        /\ contains_hex_encoded_length_one_of(d.efusesMask, {256, 1024})
        /\ d.corimUrl \in {Empty, "short"}
        /\ d.overbuild = "int"
        /\ d.romVersions = None \/ (d.romVersions # <<"">> /\ check_list_numbers(d.romVersions))
        /\ d.sdmSvns = None \/ (d.sdmSvns # <<"">> /\ check_list_numbers(d.sdmSvns))
        /\ d.sdmBuildIdStrings # <<"">>}

\* A secret embedded verbatim, the AES-GCM output of
\* Encryptor.aes_gcm_encryption and the RSA-OAEP output of
\* Encryptor.rsa_encryption; nonce and seed are fresh random draws.
Plain(pt) == [alg |-> "NONE", pt |-> pt]
Gcm(k, iv, pt) == [alg |-> "AES-GCM", key |-> k, iv |-> iv, pt |-> pt]
Oaep(pub, k, seed) == [alg |-> "RSA-OAEP", pub |-> pub, key |-> k, seed |-> seed]

IsGcm(v) == v.alg = "AES-GCM"
IsOaep(v) == v \in [alg : {"RSA-OAEP"}, pub : {ImportPub}, key : Nat, seed : Nat]
SecretValues == {Plain(v) : v \in AesValues \cup QekValues}
                \cup [alg : {"AES-GCM"}, key : Nat, iv : Nat, pt : AesValues \cup QekValues]

-----------------------------------------------------------------------------
(* Process lifecycle *)

\* The process ends: sys.exit(), exit(1), the operator's exit, the end of a
\* docopt run, or an exception that reaches Commands.run, which prints it
\* and returns.  The command's locals die with it.
EndProcess(cause) ==
    /\ phase' = "exited"
    /\ exitCause' = cause

TypeOK ==
    /\ mode \in {"docopt", "interactive"}
    /\ phase \in {"idle", "dto", "verified", "prepared", "exited"}
    /\ cmd \in 0..MaxCommands
    /\ dto \in Docs \cup {None}
    /\ DOMAIN aesKeyDto \subseteq {"value", "testProgram"}
    /\ "value" \in DOMAIN aesKeyDto => aesKeyDto["value"] \in SecretValues
    /\ DOMAIN qekDto \subseteq {"value", "keyName"}
    /\ "value" \in DOMAIN qekDto => qekDto["value"] \in SecretValues
    /\ DOMAIN confidentialData \subseteq
           {"encryptedAesKey", "encryptedQek", "aesKey", "qek", "importMode"}
    /\ \A f \in {"encryptedAesKey", "encryptedQek"} \cap DOMAIN confidentialData :
           IsOaep(confidentialData[f])
    /\ rnd \in Nat
    /\ \A i \in DOMAIN requests :
           requests[i] \in [kind : {"importKey", "submit"}, cmd : 1..MaxCommands]
    /\ exitCause \in {None, "operator", "completed", "sys.exit", "exit(1)",
                      "exception", "missing_file"}

Init ==
    /\ mode \in Modes
    /\ phase = "idle"
    /\ cmd = 0
    /\ dto = None
    /\ lists = None
    /\ aesKeyDto = EmptyDict
    /\ qekDto = EmptyDict
    /\ confidentialData = EmptyDict
    /\ rnd = 0
    /\ payload = None
    /\ requests = <<>>
    /\ exitCause = None

-----------------------------------------------------------------------------
(* Building the ConfigurationDTO *)

\* RequestMethodMapper --json: prepare_payload_from_file, then
\* ConfigurationDTO.from_json.  A missing file or text that is not JSON
\* ends in sys.exit(); a missing required key raises KeyError.  from_json
\* copies the document without checking it.
from_json ==
    /\ phase = "idle"
    /\ cmd < MaxCommands
    /\ cmd' = cmd + 1
    /\ \/ \E d \in Docs :
             /\ dto' = d
             /\ phase' = "dto"
             /\ UNCHANGED exitCause
       \/ \E cause \in {"sys.exit", "exception"} :
             /\ EndProcess(cause)
             /\ UNCHANGED dto
    /\ UNCHANGED <<mode, lists, aesKeyDto, qekDto, confidentialData, rnd,
                   payload, requests>>

\* RequestMethodMapper --interactive: ConfigurationDTO.from_user.  The
\* input_* loops re-prompt until their check passes, except that a non-hex
\* E-FUSES value or mask makes verify_hex_input return None and
\* contains_hex_encoded_length_one_of(None, ...) raise TypeError.
from_user ==
    /\ phase = "idle"
    /\ cmd < MaxCommands
    /\ cmd' = cmd + 1
    /\ \/ \E d \in UserDocs :
             /\ dto' = d
             /\ phase' = "dto"
             /\ UNCHANGED exitCause
       \/ /\ EndProcess("exception")
          /\ UNCHANGED dto
    /\ UNCHANGED <<mode, lists, aesKeyDto, qekDto, confidentialData, rnd,
                   payload, requests>>

-----------------------------------------------------------------------------
(* Configurator.verify, run by Configurator.__init__ *)

\* Every check verify() makes; the first that fails ends in sys.exit().
\* importMode and pufType are compared upper-cased.
VerifyPasses(d) ==
    /\ Truthy(d.importMode)
    /\ Upper(d.importMode) \in {"PLAINTEXT", "ENCRYPTED"}
    /\ Truthy(d.name)
    /\ Truthy(d.pufType)
    /\ Upper(d.pufType) \in supported_puf_types
    /\ Truthy(d.aes)
    /\ is_hex(d.aes)
    /\ Truthy(d.efusesValue)
    /\ is_hex(d.efusesValue)
    /\ contains_hex_encoded_length_one_of(d.efusesValue, {256, 1024})
    /\ Truthy(d.efusesMask)
    /\ is_hex(d.efusesMask)
    /\ contains_hex_encoded_length_one_of(d.efusesMask, {256, 1024})
    /\ check_list_numbers(split_array(d.romVersions))
    /\ check_list_numbers(split_array(d.sdmSvns))

\* verify() also upper-cases dto.puf_type (but not dto.import_mode) and
\* stores the parsed block lists on the Configurator.
verify ==
    /\ phase = "dto"
    /\ IF VerifyPasses(dto)
       THEN /\ dto' = [dto EXCEPT !.pufType = Upper(@)]
            /\ lists' = [romVersions |-> parse_list_numbers(split_array(dto.romVersions)),
                         sdmBuildIdStrings |-> split_array(dto.sdmBuildIdStrings),
                         sdmSvns |-> parse_list_numbers(split_array(dto.sdmSvns))]
            /\ phase' = "verified"
            /\ UNCHANGED exitCause
       ELSE /\ EndProcess("sys.exit")
            /\ UNCHANGED <<dto, lists>>
    /\ UNCHANGED <<mode, cmd, aesKeyDto, qekDto, confidentialData, rnd,
                   payload, requests>>

-----------------------------------------------------------------------------
(* Configurator.prepare *)

\* The JSON body: init_configuration with the shared dicts as they are when
\* json.dumps runs (confidentialData['aesKey'] and ['qek'] hold the
\* aes_key_dto and qek_dto objects themselves).
Resolve(cd, a, q) ==
    [k \in DOMAIN cd |-> CASE k = "aesKey" -> a
                           [] k = "qek"    -> q
                           [] OTHER        -> cd[k]]

\* The tail of prepare() after the secrets are placed: keyName when qek_dto
\* holds a value, aesKey/qek/importMode into confidentialData, testProgram,
\* block lists and E-FUSES, and the serialized body.
Assemble(a, q, cd) ==
    LET hasQek == "value" \in DOMAIN q /\ Truthy(q["value"])
        qek    == IF hasQek THEN Put(q, "keyName", dto.keyName) ELSE q
        c1     == Put(cd, "aesKey", "aes_key_dto")
        c2     == IF hasQek THEN Put(c1, "qek", "qek_dto") ELSE c1
        c3     == Put(c2, "importMode", dto.importMode)
        aes    == Put(a, "testProgram", dto.testProgram)
    IN  /\ aesKeyDto' = aes
        /\ qekDto' = qek
        /\ confidentialData' = c3
        /\ payload' = [pufType |-> dto.pufType, name |-> dto.name,
                       corimUrl |-> dto.corimUrl,
                       efusesPublic |-> [value |-> dto.efusesValue,
                                         mask |-> dto.efusesMask],
                       blackList |-> lists,
                       confidentialData |-> Resolve(c3, aes, qek)]
        /\ phase' = "prepared"
        /\ UNCHANGED exitCause

\* Variants: the None check dropped; one nonce per Encryptor instead of one
\* per encrypt(); the encryptedQek assignment left out.
ImportKeyMissingUnchecked(got) == FALSE
NonceDrawOnce(r, n) == r + 2
StoreQekEnvelopeSkipped(cd, w) == cd

\* Configurator.py:296: prepare() stops when no import key came back.
ImportKeyMissing(got) == got = None

\* Encryptor.aes_gcm_encryption draws the n-th nonce of an Encryptor whose
\* key is draw r+1 (draws r+2, r+4: one per encrypt() call).
NonceDraw(r, n) == r + 2 * n

\* Configurator.py:305: the wrapped key for the QEK goes into
\* confidentialData['encryptedQek'].
StoreQekEnvelope(cd, w) == Put(cd, "encryptedQek", w)

\* What get_service_import_public_key(None, True) can give: the key, a body
\* that is no RSA key, None (a non-200 status, or a transport error in the
\* interactive loop), exit(1) on a transport error in docopt mode, or
\* sys.exit() from check_file on a missing certificate file.
ImportKeyResults ==
    {ImportPub, "not_a_key", None, "missing_file"}
        \cup (IF mode = "docopt" THEN {"exit(1)"} ELSE {})

\* ENCRYPTED branch: fetch the import key, then one Encryptor (one key
\* draw) encrypts aes_key_value and, when present, qek_value; each
\* encrypt() draws a nonce and each get_encrypted_key() re-runs RSA-OAEP.
\* bytes.fromhex on an odd-length value and RSA.importKey on a body that is
\* no key raise.
PrepareEncrypted ==
    /\ requests' = Append(requests, [kind |-> "importKey", cmd |-> cmd])
    /\ \E got \in ImportKeyResults :
        LET k       == rnd + 1
            withQek == Truthy(dto.qek)
            aesCt   == Gcm(k, NonceDraw(rnd, 1), dto.aes)
            aesW    == Oaep(got, k, rnd + 3)
            qekCt   == Gcm(k, NonceDraw(rnd, 2), dto.qek)
            qekW    == Oaep(got, k, rnd + 5)
            c1      == Put(confidentialData, "encryptedAesKey", aesW)
        IN
        CASE ImportKeyMissing(got) ->
                 /\ EndProcess("sys.exit")
                 /\ UNCHANGED <<aesKeyDto, qekDto, confidentialData, rnd, payload>>
          [] got \in {"exit(1)", "missing_file"} ->
                 /\ EndProcess(got)
                 /\ UNCHANGED <<aesKeyDto, qekDto, confidentialData, rnd, payload>>
          [] got = "not_a_key" \/ ~FromHexOk(dto.aes)
                \/ (withQek /\ ~FromHexOk(dto.qek)) ->
                 /\ EndProcess("exception")
                 /\ UNCHANGED <<aesKeyDto, qekDto, confidentialData, rnd, payload>>
          [] OTHER ->
                 /\ rnd' = IF withQek THEN rnd + 5 ELSE rnd + 3
                 /\ Assemble(Put(aesKeyDto, "value", aesCt),
                             IF withQek THEN Put(qekDto, "value", qekCt) ELSE qekDto,
                             IF withQek THEN StoreQekEnvelope(c1, qekW) ELSE c1)

\* Variant: the plaintext branch only fills aes_key_dto['value'] when the
\* shared dict has none yet.
PreparePlaintextKeepsOldAes ==
    /\ Assemble(IF "value" \in DOMAIN aesKeyDto THEN aesKeyDto
                ELSE Put(aesKeyDto, "value", Plain(dto.aes)),
                IF Truthy(dto.qek) THEN Put(qekDto, "value", Plain(dto.qek))
                                   ELSE qekDto,
                confidentialData)
    /\ UNCHANGED <<rnd, requests>>

\* Any other import mode string: the secrets go in verbatim.
PreparePlaintext ==
    /\ Assemble(Put(aesKeyDto, "value", Plain(dto.aes)),
                IF Truthy(dto.qek) THEN Put(qekDto, "value", Plain(dto.qek))
                                   ELSE qekDto,
                confidentialData)
    /\ UNCHANGED <<rnd, requests>>

\* prepare() starts with int(overbuild_max), which raises on a value that
\* is no integer, and takes the ENCRYPTED branch on an exact string match.
prepare ==
    /\ phase = "verified"
    /\ IF dto.overbuild # "int"
       THEN /\ EndProcess("exception")
            /\ UNCHANGED <<aesKeyDto, qekDto, confidentialData, rnd, payload,
                           requests>>
       ELSE IF dto.importMode = "ENCRYPTED"
            THEN PrepareEncrypted
            ELSE PreparePlaintext
    /\ UNCHANGED <<mode, cmd, dto, lists>>

-----------------------------------------------------------------------------
(* Submission and the command loop *)

\* What create_configuration / update_configuration's perform_request can
\* end in: it returns (whatever the status), exit(1) on a transport error
\* in docopt mode, sys.exit() from check_file on a missing certificate.
SubmitResults ==
    {"returned", "missing_file"} \cup (IF mode = "docopt" THEN {"exit(1)"} ELSE {})

\* The body is sent.  A docopt run ends after its one command; the
\* interactive loop prompts for the next one.
submit ==
    /\ phase = "prepared"
    /\ requests' = Append(requests, [kind |-> "submit", cmd |-> cmd])
    /\ \E r \in SubmitResults :
          CASE r = "returned" /\ mode = "interactive" ->
                   /\ phase' = "idle"
                   /\ UNCHANGED exitCause
            [] r = "returned" -> EndProcess("completed")
            [] OTHER -> EndProcess(r)
    /\ dto' = None
    /\ lists' = None
    /\ payload' = None
    /\ UNCHANGED <<mode, cmd, aesKeyDto, qekDto, confidentialData, rnd>>

\* section_loop_short: the operator types "exit" (exit(0)).
quit ==
    /\ mode = "interactive"
    /\ phase = "idle"
    /\ EndProcess("operator")
    /\ UNCHANGED <<mode, cmd, dto, lists, aesKeyDto, qekDto, confidentialData,
                   rnd, payload, requests>>

Next ==
    \/ from_json
    \/ from_user
    \/ verify
    \/ prepare
    \/ submit
    \/ quit

Spec == Init /\ [][Next]_vars


-----------------------------------------------------------------------------
(* Properties *)

\* The confidentialData part of the body prepared for the current command.
Body == payload.confidentialData

\* Every encrypted secret in a prepared body travels with a wrapped key that
\* opens it: encryptedAesKey wraps the key aesKey.value was encrypted
\* under, encryptedQek the key of qek.value, both for the service import
\* key; this must hold also for entries an earlier command left in the
\* class-level dicts.
EnvelopesOpen ==
    phase = "prepared" =>
        \A f \in {<<"aesKey", "encryptedAesKey">>, <<"qek", "encryptedQek">>} :
            (f[1] \in DOMAIN Body /\ IsGcm(Body[f[1]]["value"])) =>
                /\ f[2] \in DOMAIN Body
                /\ Body[f[2]].key = Body[f[1]]["value"].key
                /\ Body[f[2]].pub = ImportPub

\* The AES key a prepared body carries, decrypted if encrypted, is the one
\* the command's own document gave, although aes_key_dto is shared by all
\* commands of the process.
OwnAesKey ==
    phase = "prepared" => Body["aesKey"]["value"].pt = dto.aes

\* No two secrets of one body are AES-GCM encrypted under one key with one
\* nonce: the AES key and the QEK share the Encryptor's key, so each
\* encrypt() must draw its own nonce.
NoncesDistinct ==
    phase = "prepared" /\ "qek" \in DOMAIN Body =>
        LET a == Body["aesKey"]["value"]
            q == Body["qek"]["value"]
        IN  (IsGcm(a) /\ IsGcm(q) /\ a.key = q.key) => a.iv # q.iv

\* No key material is carried over from an earlier command: a prepared body
\* holds a QEK only when its own document gave one, and that QEK, and holds
\* wrapped keys only when its own command took the ENCRYPTED branch.
NoStaleKeyMaterial ==
    phase = "prepared" =>
        /\ "qek" \in DOMAIN Body => Body["qek"]["value"].pt = dto.qek
        /\ "encryptedAesKey" \in DOMAIN Body => dto.importMode = "ENCRYPTED"
        /\ "encryptedQek" \in DOMAIN Body =>
               dto.importMode = "ENCRYPTED" /\ Truthy(dto.qek)

\* Spec 4.3 and 4.4: a document verify() accepts with importMode ENCRYPTED
\* (in any letter case) never has its AES key sent in the clear, and when
\* both secrets are encrypted, encryptedAesKey and encryptedQek are one
\* identical wrapped key.
EncryptedAsSpecified ==
    phase = "prepared" =>
        /\ Upper(dto.importMode) = "ENCRYPTED" => IsGcm(Body["aesKey"]["value"])
        /\ {"encryptedAesKey", "encryptedQek"} \subseteq DOMAIN Body
               => Body["encryptedAesKey"] = Body["encryptedQek"]

\* In the interactive loop a failed command ends only that command: the
\* process ends only when the operator exits, or on a missing certificate
\* file, which is fatal by design.
SessionSurvivesFailedCommand ==
    [][mode = "interactive" /\ phase' = "exited"
         => exitCause' \in {"operator", "missing_file"}]_vars

\* Spec 5 and 9 for the interactive loop: the commands of one session are
\* independent: no command carries key material of an earlier one into
\* its body (the class-level dicts of Configurator), and a failed command
\* does not end the session (sys.exit inside verify/prepare).
InteractiveCommandsIndependent == []NoStaleKeyMaterial /\ SessionSurvivesFailedCommand

=============================================================================
