--------------------------- MODULE DocumentEntry ---------------------------
(***************************************************************************)
(* How a ConfigurationDTO gets its secrets and block lists, character by   *)
(* character, and what Configurator.verify() then accepts                  *)
(* (Modules/Configurator.py, with the helpers of Validator).              *)
(*                                                                         *)
(* Two sources: ConfigurationDTO.from_user, whose input_* prompts loop     *)
(* until their own check passes (input_qek_value does not loop), and       *)
(* from_json, which copies the document and joins each block list with     *)
(* ','.  verify() then re-checks the document and stores the parsed lists *)
(* the body will carry.  The module ends where prepare() takes over.      *)
(*                                                                         *)
(* The checks of different fields are independent, so a behaviour varies  *)
(* the text of one field, `focus`, over every string of the input domain,  *)
(* and gives every other field one valid value.  Import mode, name, PUF    *)
(* type, the Y/N answers, CoRIM URL and overbuild counter are prompts that *)
(* loop until valid and carry values no property here tells apart.        *)
(***************************************************************************)
EXTENDS Validator, FiniteSets, TLC

CONSTANTS
    Sources,         \* SUBSET {"user", "json"}
    Focus,           \* the fields whose text varies
    HexInputs,       \* strings typed or given for a hex field
    ListInputs,      \* strings typed for a numeric block list
    IdInputs,        \* strings typed for sdmBuildIdStrings
    KeyNameInputs,   \* strings typed or given for the QEK key name
    JsonNumLists,    \* JSON arrays of ints for romVersions / sdmSvns
    JsonIdLists,     \* JSON arrays of strings for sdmBuildIdStrings
    Lengths,         \* the decoded byte lengths allowed for E-FUSES (scaled)
    GoodHex,         \* a valid AES key
    GoodEfuses       \* a valid E-FUSES value / mask

HexFields == {"aes", "qek", "efusesValue", "efusesMask"}
NumListFields == {"sdmSvns", "romVersions"}
Fields == HexFields \cup NumListFields \cup {"keyName", "sdmBuildIdStrings"}

ASSUME Focus \subseteq Fields \ {"keyName"}

VARIABLES
    src,        \* which constructor builds the DTO
    focus,      \* the field whose text varies in this behaviour
    pc,         \* the prompt or step the DTO construction is at
    typed,      \* the last string the operator typed
    typedQek,   \* what the operator typed at the QEK prompt
    doc,        \* the ConfigurationDTO fields
    jsonDoc,    \* the JSON document from_json read
    lists,      \* Configurator.rom_versions / sdm_build_id_strings / sdm_svns
    exitCause   \* why the command ended before prepare(), None otherwise

dvars == <<src, focus, pc, typed, typedQek, doc, jsonDoc, lists, exitCause>>

\* from_user's order of prompts (Configurator.py:92-112).
NextPrompt == ("aes" :> "qek") @@ ("keyName" :> "efusesValue")
              @@ ("efusesValue" :> "efusesMask") @@ ("efusesMask" :> "sdmSvns")
              @@ ("sdmSvns" :> "sdmBuildIdStrings")
              @@ ("sdmBuildIdStrings" :> "romVersions") @@ ("romVersions" :> "verify")

\* The inputs of field f: the whole domain when f is the focus.
Offered(f, domain, good) == IF f = focus THEN domain ELSE {good}

JsonQeks == {None} \cup [value : HexInputs, keyName : KeyNameInputs \cup {None}]

JsonDocs ==
    [aes : Offered("aes", HexInputs, GoodHex),
     qek : Offered("qek", JsonQeks, None),
     efusesValue : Offered("efusesValue", HexInputs, GoodEfuses),
     efusesMask : Offered("efusesMask", HexInputs, GoodEfuses),
     sdmSvns : Offered("sdmSvns", JsonNumLists, <<>>),
     sdmBuildIdStrings : Offered("sdmBuildIdStrings", JsonIdLists, <<>>),
     romVersions : Offered("romVersions", JsonNumLists, <<>>)]

Strings == HexInputs \cup ListInputs \cup IdInputs \cup KeyNameInputs
           \cup {GoodHex, GoodEfuses, <<>>}

TypeOK ==
    /\ src \in Sources
    /\ focus \in Focus
    /\ pc \in {"settings", "json", "verify", "verified", "exited"} \cup Fields
    /\ typed \in Strings \cup {None}
    /\ typedQek \in HexInputs \cup {<<>>, None}
    /\ doc \in [Fields -> Seq(STRING) \cup {None}]
    /\ jsonDoc \in JsonDocs \cup {None}
    /\ lists \in [NumListFields -> Seq(Int)] \cup {None}
    /\ exitCause \in {None, "sys.exit", "exception"}

Init ==
    /\ src \in Sources
    /\ focus \in Focus
    /\ pc = IF src = "user" THEN "settings" ELSE "json"
    /\ typed = None
    /\ typedQek = None
    /\ doc = [f \in Fields |-> None]
    /\ jsonDoc = None
    /\ lists = None
    /\ exitCause = None

Store(f, v) == doc' = [doc EXCEPT ![f] = v]

Fail(cause) == pc' = "exited" /\ exitCause' = cause

-----------------------------------------------------------------------------
(* ConfigurationDTO.from_user *)

\* The prompts before the AES key (import mode ... test program).
input_settings ==
    /\ pc = "settings"
    /\ pc' = "aes"
    /\ UNCHANGED <<src, focus, typed, typedQek, doc, jsonDoc, lists, exitCause>>

\* Loops until verify_hex_input returns a non-empty value.
input_aes_key_value(s) ==
    /\ pc = "aes"
    /\ typed' = s
    /\ IF Truthy(verify_hex_input(s))
       THEN Store("aes", s) /\ pc' = "qek"
       ELSE UNCHANGED <<doc, pc>>
    /\ UNCHANGED <<src, focus, typedQek, jsonDoc, lists, exitCause>>

\* One prompt, no loop: what verify_hex_input rejects becomes None and the
\* key name is not asked for.
input_qek_value(s) ==
    /\ pc = "qek"
    /\ typed' = s
    /\ typedQek' = s
    /\ Store("qek", verify_hex_input(s))
    /\ pc' = IF Truthy(verify_hex_input(s)) THEN "keyName" ELSE "efusesValue"
    /\ UNCHANGED <<src, focus, jsonDoc, lists, exitCause>>

input_key_name(s) ==
    /\ pc = "keyName"
    /\ typed' = s
    /\ IF Truthy(s)
       THEN Store("keyName", s) /\ pc' = "efusesValue"
       ELSE UNCHANGED <<doc, pc>>
    /\ UNCHANGED <<src, focus, typedQek, jsonDoc, lists, exitCause>>

\* input_efuses_pub_value / input_efuses_pub_mask: a value verify_hex_input
\* rejects is None, and len(None) raises TypeError.
input_efuses(f, s) ==
    /\ pc = f
    /\ typed' = s
    /\ LET v == verify_hex_input(s) IN
         CASE v = None -> Fail("exception") /\ UNCHANGED doc
           [] contains_hex_encoded_length_one_of(v, Lengths) ->
                 Store(f, v) /\ pc' = NextPrompt[f] /\ UNCHANGED exitCause
           [] OTHER -> UNCHANGED <<doc, pc, exitCause>>
    /\ UNCHANGED <<src, focus, typedQek, jsonDoc, lists>>

\* Variant: a non-empty list is stored without check_list_numbers.
input_list_unchecked(f, s) ==
    /\ pc = f
    /\ typed' = s
    /\ Store(f, IF Truthy(s) THEN s ELSE None)
    /\ pc' = NextPrompt[f]
    /\ UNCHANGED <<src, focus, typedQek, jsonDoc, lists, exitCause>>

\* input_sdm_svns / input_rom_versions: an empty answer breaks the loop
\* (None); otherwise the loop repeats until the split list checks.
input_list(f, s) ==
    /\ pc = f
    /\ typed' = s
    /\ IF ~Truthy(s) \/ check_list_numbers(Split(s, ","))
       THEN Store(f, IF Truthy(s) THEN s ELSE None) /\ pc' = NextPrompt[f]
       ELSE UNCHANGED <<doc, pc>>
    /\ UNCHANGED <<src, focus, typedQek, jsonDoc, lists, exitCause>>

input_sdm_build_id_strings(s) ==
    /\ pc = "sdmBuildIdStrings"
    /\ typed' = s
    /\ Store("sdmBuildIdStrings", IF Truthy(s) THEN s ELSE None)
    /\ pc' = NextPrompt["sdmBuildIdStrings"]
    /\ UNCHANGED <<src, focus, typedQek, jsonDoc, lists, exitCause>>

-----------------------------------------------------------------------------
(* ConfigurationDTO.from_json *)

\* ",".join(map(str, ...)) of a JSON array of ints.
JoinInts(l) == JoinSeq([i \in DOMAIN l |-> PyStr(l[i])], ",")

\* Copies the document; a qek object without keyName raises KeyError.
from_json(jd) ==
    /\ pc = "json"
    /\ jsonDoc' = jd
    /\ IF jd.qek # None /\ jd.qek.keyName = None
       THEN Fail("exception") /\ UNCHANGED doc
       ELSE /\ doc' = [aes |-> jd.aes,
                       qek |-> IF jd.qek = None THEN None ELSE jd.qek.value,
                       keyName |-> IF jd.qek = None THEN None ELSE jd.qek.keyName,
                       efusesValue |-> jd.efusesValue,
                       efusesMask |-> jd.efusesMask,
                       sdmSvns |-> JoinInts(jd.sdmSvns),
                       sdmBuildIdStrings |-> JoinSeq(jd.sdmBuildIdStrings, ","),
                       romVersions |-> JoinInts(jd.romVersions)]
            /\ pc' = "verify"
            /\ UNCHANGED exitCause
    /\ UNCHANGED <<src, focus, typed, typedQek, lists>>

-----------------------------------------------------------------------------
(* Configurator.verify *)

\* The checks verify() makes on these fields; the first that fails ends in
\* sys.exit().
VerifyPasses(d) ==
    /\ Truthy(d.aes) /\ is_hex(d.aes)
    /\ \A f \in {"efusesValue", "efusesMask"} :
          /\ Truthy(d[f]) /\ is_hex(d[f])
          /\ contains_hex_encoded_length_one_of(d[f], Lengths)
    /\ \A f \in NumListFields : check_list_numbers(split_array(d[f]))

\* On success verify() stores the lists prepare() puts in the body.
verify ==
    /\ pc = "verify"
    /\ IF VerifyPasses(doc)
       THEN /\ lists' = [f \in NumListFields |-> parse_list_numbers(split_array(doc[f]))]
            /\ pc' = "verified"
            /\ UNCHANGED exitCause
       ELSE Fail("sys.exit") /\ UNCHANGED lists
    /\ UNCHANGED <<src, focus, typed, typedQek, doc, jsonDoc>>

\* The sdmBuildIdStrings list verify() stores for the body.
BuildIds == split_array(doc.sdmBuildIdStrings)

Next ==
    \/ input_settings
    \/ \E s \in Offered("aes", HexInputs, GoodHex) : input_aes_key_value(s)
    \/ \E s \in Offered("qek", HexInputs, <<>>) : input_qek_value(s)
    \/ \E s \in KeyNameInputs : input_key_name(s)
    \/ \E f \in {"efusesValue", "efusesMask"} :
          \E s \in Offered(f, HexInputs, GoodEfuses) : input_efuses(f, s)
    \/ \E f \in NumListFields : \E s \in Offered(f, ListInputs, <<>>) : input_list(f, s)
    \/ \E s \in Offered("sdmBuildIdStrings", IdInputs, <<>>) : input_sdm_build_id_strings(s)
    \/ \E jd \in JsonDocs : from_json(jd)
    \/ verify

\* The module stops where prepare() would start.
Spec == Init /\ [][Next]_dvars

-----------------------------------------------------------------------------

\* The per-field loops of from_user are at least as strict as verify(): a
\* document the operator completed field by field is never refused by
\* verify() (only a non-hex E-FUSES answer ends the command, with a
\* TypeError in the prompt itself).
UserEntryPassesVerify == src = "user" => exitCause # "sys.exit"

\* The best-effort parse of section 9 never drops a token of a list
\* verify() accepted: the lists the body carries hold one int per entry,
\* except the empty-list sentinel [""], which becomes [].
NoTokenDropped ==
    pc = "verified" =>
        \A f \in NumListFields :
            \/ split_array(doc[f]) = <<<<>>>>
            \/ Len(lists[f]) = Len(split_array(doc[f]))

\* A JSON block list of non-negative ints is accepted and reaches the body
\* unchanged, through the ',' join of from_json and the split of verify();
\* a list with a negative entry is refused.
JsonNumbersRoundTrip ==
    (src = "json" /\ focus \in NumListFields /\ pc \in {"verified", "exited"}) =>
        /\ pc = "verified" <=> \A i \in DOMAIN jsonDoc[focus] : jsonDoc[focus][i] >= 0
        /\ pc = "verified" => lists[focus] = jsonDoc[focus]

\* Spec 4.1 and 7: a document verify() accepts is the one given and is
\* valid: the AES key and a QEK decode as hex bytes, a QEK has a key name,
\* the E-FUSES value and mask decode to an allowed number of bytes, a QEK
\* typed at the prompt is neither dropped nor coerced, and the build-ID
\* list of a JSON document reaches the body as it was.
AcceptedDocumentAsSpecified ==
    pc = "verified" =>
        /\ FromHexLen(doc.aes) > 0
        /\ Truthy(doc.qek) => FromHexLen(doc.qek) > 0 /\ Truthy(doc.keyName)
        /\ \A f \in {"efusesValue", "efusesMask"} : FromHexLen(doc[f]) \in Lengths
        /\ Truthy(typedQek) => doc.qek = typedQek
        /\ src = "json" => BuildIds = jsonDoc.sdmBuildIdStrings
=============================================================================
