------------------------------- MODULE JwtCode --------------------------------
(***************************************************************************)
(* The JWT detector (sessionscope-detectors, jwt).  Its nodes:              *)
(*   Import   a name of a package: "jsonwebtoken", "jose" or "jwt", all of  *)
(*            it ("namespace") or one function of it, under a local name    *)
(*   Object   name = { ... }: an object kept in a variable                  *)
(*   Jwt      a call of object.name(...), or of name(...) when object is "";*)
(*            the chain new SignJWT(...) ... .sign(key) is one call         *)
(*   KeyMap   what happens to a variable that is called a key map           *)
(*   HeaderUse  header.kid, header["jku"], ...: in a log call, in the lookup *)
(*            of a key map, in another key resolution, or just read         *)
(* A value is [literal, at, says]: a string, list or object literal; where   *)
(* its text is in the order of all texts, 0 being the place of "[";         *)
(* and the words its text says (a name says itself too).  An object is      *)
(* [members, spread], members by their keys, {exp} like exp: exp.  An        *)
(* argument that is missing is <<>>, any other <<value>>; options and        *)
(* payloads are <<"object", o>>, <<"identifier", name>>, <<"expression", ""  *)
(* >> or <<"none", "">>.  The keywords of a PyJWT call are an object, where  *)
(* `alg` is that of its headers; the chain of SignJWT is one of its setters. *)
(***************************************************************************)
EXTENDS JwtRules, Source

Value(literal, at, says) == [literal |-> literal, at |-> at, says |-> says]
JwtObject(members, spread) == [members |-> members, spread |-> spread]

\* The claims about the subject, by field.
Claim == {"subject", "user_id", "tenant_id", "org_id", "workspace_id", "roles", "scopes",
          "groups", "email", "email_verified", "auth_method", "auth_class"}

\* Fields of a call by detector: attributes, claims, options and headers.
Attr(k) ==
    [algorithm |-> "jwt.attribute.algorithm", audience |-> "jwt.attribute.audience",
     auth_class |-> "jwt.attribute.auth_class", auth_method |-> "jwt.attribute.auth_method",
     email |-> "jwt.attribute.email", email_verified |-> "jwt.attribute.email_verified",
     expiration |-> "jwt.attribute.expiration",
     expiry_enforcement |-> "jwt.attribute.expiry_enforcement",
     groups |-> "jwt.attribute.groups", issuer |-> "jwt.attribute.issuer",
     key_reference |-> "jwt.attribute.key_reference", operation |-> "jwt.attribute.operation",
     org_id |-> "jwt.attribute.org_id", roles |-> "jwt.attribute.roles",
     scopes |-> "jwt.attribute.scopes",
     signature_verification |-> "jwt.attribute.signature_verification",
     subject |-> "jwt.attribute.subject", tenant_id |-> "jwt.attribute.tenant_id",
     user_id |-> "jwt.attribute.user_id", workspace_id |-> "jwt.attribute.workspace_id"][k]
Opt(k) ==
    [algorithms |-> "jwt.option.algorithms", audience |-> "jwt.option.audience",
     clock_timestamp |-> "jwt.option.clock_timestamp",
     clock_tolerance |-> "jwt.option.clock_tolerance", complete |-> "jwt.option.complete",
     ignore_expiration |-> "jwt.option.ignore_expiration",
     ignore_not_before |-> "jwt.option.ignore_not_before", issuer |-> "jwt.option.issuer",
     nonce |-> "jwt.option.nonce", subject |-> "jwt.option.subject"][k]

\* JwtField::lifecycle_stage, where `stage` is that of the call.
IsHeader(k) == k \in Header
IsOption(k) == k \in {Opt(o) : o \in {"algorithms", "audience", "issuer", "subject", "nonce",
    "clock_tolerance", "clock_timestamp", "complete", "ignore_not_before", "ignore_expiration"}}
FieldStage(k, stage) ==
    IF k = Attr("expiration") THEN "expire"
    ELSE IF \/ IsHeader(k) \/ IsOption(k)
            \/ k \in {Attr("expiry_enforcement"), Attr("signature_verification")}
         THEN "validate"
    ELSE stage

-----------------------------------------------------------------------------
(* What a field was seen to be.                                             *)
Field(state, value, confidence, line, says) ==
    [state |-> state, value |-> value, confidence |-> confidence, line |-> line, says |-> says]

\* safe_text_value: of a literal it says only "[literal]"; the excerpt keeps the text.
\* An option about identity keeps neither.  What is not present has no text, or one
\* that no rule reads.
ValueWords(v) == IF v.literal THEN {} ELSE v.says
TextOf(v) == [at |-> IF v.literal THEN 0 ELSE v.at, says |-> ValueWords(v)]
PresentNode(k, v, line) ==
    IF k \in {Opt("audience"), Opt("issuer"), Opt("subject"), Opt("nonce")}
    THEN Field("present", {}, "high", line, {})
    ELSE Field("present", {TextOf(v)}, "high", line, v.says)
Known(state, line) == Field(state, {}, "high", line, {})
Defaulted(line) == Field("framework_default", {}, "low", line, {})
Unresolved(line) == Field("dynamic", {}, "medium", line, {})

\* The keys of an object that tell of a field; of several, the first in order.
AttrKeys(keys) == [k \in {Attr(a) : a \in DOMAIN keys} |-> keys[CHOOSE a \in DOMAIN keys : Attr(a) = k]]
OptKeys(keys) == [k \in {Opt(a) : a \in DOMAIN keys} |-> keys[CHOOSE a \in DOMAIN keys : Opt(a) = k]]

IssuePayload == AttrKeys([issuer |-> <<"iss">>, audience |-> <<"aud">>, expiration |-> <<"exp">>])
SignKeys == AttrKeys([algorithm |-> <<"algorithm", "algorithms">>, issuer |-> <<"issuer">>,
                      audience |-> <<"audience">>, expiration |-> <<"expiresIn", "expires">>])
CommonKeys ==
    Over(AttrKeys([algorithm |-> <<"algorithms", "algorithm">>, issuer |-> <<"issuer">>,
                   audience |-> <<"audience">>]),
         OptKeys([algorithms |-> <<"algorithms", "algorithm">>, issuer |-> <<"issuer">>,
                  audience |-> <<"audience">>, subject |-> <<"subject">>, nonce |-> <<"nonce">>,
                  clock_tolerance |-> <<"clockTolerance">>, complete |-> <<"complete">>,
                  ignore_not_before |-> <<"ignoreNotBefore">>]))
VerifyKeys(jose) ==
    Over(CommonKeys,
         IF jose THEN OptKeys([clock_timestamp |-> <<"currentDate", "clockTimestamp">>])
         ELSE OptKeys([clock_timestamp |-> <<"clockTimestamp">>,
                       ignore_expiration |-> <<"ignoreExpiration">>]))
PythonKeys ==
    OptKeys([algorithms |-> <<"algorithms", "algorithm">>, issuer |-> <<"issuer", "iss">>,
             audience |-> <<"audience", "aud">>, subject |-> <<"subject", "sub">>,
             nonce |-> <<"nonce">>, clock_tolerance |-> <<"leeway", "clockTolerance">>,
             clock_timestamp |-> <<"clockTimestamp">>, complete |-> <<"complete">>,
             ignore_not_before |-> <<"verify_nbf">>, ignore_expiration |-> <<"verify_exp">>])
ObjectKeys ==
    Over(AttrKeys([algorithm |-> <<"algorithm", "algorithms", "alg">>, issuer |-> <<"issuer", "iss">>,
                   audience |-> <<"audience", "aud">>,
                   expiration |-> <<"expiresIn", "expires", "exp">>,
                   expiry_enforcement |-> <<"maxAge", "maxTokenAge">>]),
    Over(OptKeys([algorithms |-> <<"algorithm", "algorithms", "alg">>,
                  clock_timestamp |-> <<"clockTimestamp", "currentDate">>,
                  clock_tolerance |-> <<"clockTolerance", "leeway">>,
                  ignore_not_before |-> <<"ignoreNotBefore", "verify_nbf">>,
                  ignore_expiration |-> <<"ignoreExpiration", "verify_exp">>]), PythonKeys))

\* add_object_field: the fields an object tells of, and with a spread the rest.
IsLiteral(o, key, word) == key \in DOMAIN o.members /\ word \in ValueWords(o.members[key])
Written(o, keys, line) ==
    LET hit(k) == SelectInSeq(keys[k], LAMBDA key : key \in DOMAIN o.members)
    IN [k \in {x \in DOMAIN keys : hit(x) # 0} |->
           PresentNode(k, o.members[keys[k][hit(k)]], line)]
AllUnresolved(keys, line) == [k \in DOMAIN keys |-> Unresolved(line)]
WithSpread(o, keys, line) ==
    Over(Written(o, keys, line), IF o.spread THEN AllUnresolved(keys, line) ELSE <<>>)

\* add_identity_claim_fields_from_object; the spellings of a claim are one key.
ClaimKey(c) == IF c = "subject" THEN "sub" ELSE c
Claims(o, line) ==
    LET told == {c \in Claim : ClaimKey(c) \in DOMAIN o.members}
    IN [k \in {Attr(c) : c \in told} |->
           LET c == CHOOSE x \in told : Attr(x) = k
           IN Field("present", {TextOf(o.members[ClaimKey(c)])}, "high", line, {})]

\* python_options_require_exp
RequiresExp(o) == "require" \in DOMAIN o.members /\ "exp" \in o.members["require"].says

\* field_set_from_object: an object kept in a variable, read before its use is known.
KeptExpiry(o, d) ==
    LET expiry == Attr("expiry_enforcement") IN
    IF IsLiteral(o, "verify_exp", "false") \/ (IsLiteral(o, "ignoreExpiration", "true") /\ ~RequiresExp(o))
    THEN Only(expiry, Known("missing", d))
    ELSE IF RequiresExp(o) THEN Only(expiry, Known("present", d)) ELSE <<>>
KeptSignature(o, d) ==
    IF IsLiteral(o, "verify_signature", "false")
    THEN Over(Only(Attr("operation"), Known("present", d)),
              Only(Attr("signature_verification"), Known("missing", d)))
    ELSE <<>>
KeptFields(f, d) ==
    LET o == f.nodes[d].object
    IN Over(KeptExpiry(o, d), Over(KeptSignature(o, d), Over(WithSpread(o, ObjectKeys, d), Claims(o, d))))

-----------------------------------------------------------------------------
(* Scopes and variables.                                                    *)

\* is_scope_node: a function expression is none.
IsScope(f, n) == f.nodes[n].kind \in {"Function", "Route"} /\ f.nodes[n].form # "expression"
Scope(f, n) == Innermost(f, n, LAMBDA m : IsScope(f, m))

\* lookup_alias: the latest declaration before the use whose scope is around it.
Declarations(f, n, name) ==
    {d \in Nodes(f, "Object") : /\ d < n /\ f.nodes[d].name = name
                                /\ LET scope == Scope(f, d) IN scope = 0 \/ Inside(f, n, scope)}
LastOrNone(D) == IF D = {} THEN 0 ELSE LastOf(D)
\* The declaration of the variable that x is, 0 when it is none or another thing.
Declared(f, n, x) == IF x[1] = "identifier" THEN LastOrNone(Declarations(f, n, x[2])) ELSE 0

\* Options over the fields F of a call: what an object says replaces what F has,
\* what a variable, declared at d, or a spread says only fills it up.  Python ignores
\* any other expression.
OnlyKeys(G, all) == [k \in DOMAIN G \cap DOMAIN all |-> G[k]]
WithOptions(F, f, n, o, d, keys, all) ==
    CASE o[1] = "none" -> F
      [] o[1] = "object" ->
           Over(Written(o[2], keys, n), Over(F, IF o[2].spread THEN AllUnresolved(all, n) ELSE <<>>))
      [] d # 0 -> Over(F, Over(OnlyKeys(KeptFields(f, d), all),
                               IF f.nodes[d].object.spread THEN AllUnresolved(all, n) ELSE <<>>))
      [] o[1] = "expression" /\ f.language = "py" -> F
      [] OTHER -> Over(F, AllUnresolved(all, n))

\* add_js_expiry_enforcement, add_python_expiry_enforcement: a value that is not
\* the literal counts as the library's default.  off and on say what an object does.
WithExpiry(F, f, n, o, d, off, on) ==
    LET k == Attr("expiry_enforcement")
    IN CASE o[1] = "none" -> Over(Only(k, Defaulted(n)), F)
         [] o[1] = "object" ->
              IF off THEN Over(Only(k, Known("missing", n)), F)
              ELSE IF on THEN Over(Only(k, Known("present", n)), F)
              ELSE IF o[2].spread THEN Over(F, Only(k, Unresolved(n)))
              ELSE Over(Only(k, Defaulted(n)), F)
         [] d # 0 -> IF k \in DOMAIN KeptFields(f, d) THEN Over(F, Only(k, KeptFields(f, d)[k]))
                     ELSE IF f.nodes[d].object.spread THEN Over(F, Only(k, Unresolved(n)))
                     ELSE Over(Only(k, Defaulted(n)), F)
         [] OTHER -> Over(F, Only(k, Unresolved(n)))

-----------------------------------------------------------------------------
(* Headers that choose a key.                                               *)

\* map_assignment_state, map_mutation_matches: assignments are Python's; in
\* JavaScript only a declaration and a call of set, update or insert are seen.
Visible(f, m) == f.language = "py" \/ f.nodes[m].event \in {"static", "other", "call"}
MapEvents(f, u) == {m \in Nodes(f, "KeyMap") : /\ m < u /\ Visible(f, m)
                                               /\ f.nodes[m].name = f.nodes[u].map}

\* key_map_lookup_uses_static_map: the last thing the top level did with the map
\* made it a literal, and the function of the use did not touch or shadow it.
StaticMap(f, u) ==
    LET scope == Scope(f, u)
        top == {m \in MapEvents(f, u) : f.nodes[m].within = 0}
    IN /\ top # {} /\ f.nodes[LastOf(top)].event = "static"
       /\ scope # 0 => /\ f.nodes[u].map \notin Range1(f.nodes[scope].parameters)
                       /\ \A m \in MapEvents(f, u) : f.nodes[m].within # scope

\* The whole function of the call is searched, and no more than the call outside
\* of one.
HeaderUses(f, n, header) ==
    {u \in Nodes(f, "HeaderUse") : /\ Scope(f, n) # 0 /\ Inside(f, u, Scope(f, n))
                                   /\ f.nodes[u].header = header /\ f.nodes[u].use # "log"}

\* header_use_context: the first use that resolves a key; only a kid counts when read.
Resolving(f, uses) == {u \in uses : f.nodes[u].use # "read"}
MapUse(f, u) == IF f.nodes[u].use = "map" /\ StaticMap(f, u) THEN {"key map"} ELSE {}
HeaderField(f, n, header, uses) ==
    IF Resolving(f, uses) # {} THEN Field("present", {}, "high", n, MapUse(f, Least(Resolving(f, uses))))
    ELSE Field("present", {}, "high", n, {})
HeaderFields(f, n) ==
    LET read == {"jwt.header.jku", "jwt.header.x5u", "jwt.header.jwk", "jwt.header.kid"}
    IN [h \in {x \in read : \E u \in HeaderUses(f, n, x) : f.nodes[u].use # "read" \/ x = "jwt.header.kid"}
          |-> HeaderField(f, n, h, HeaderUses(f, n, h))]

-----------------------------------------------------------------------------
(* Calls.                                                                   *)

\* The imports anywhere in a file, and `jwt` whether it is imported or not.
Imports(f) == {f.nodes[n] : n \in Nodes(f, "Import")}
Packages(language) == IF language = "py" THEN {"jwt"} ELSE {"jsonwebtoken", "jose"}
Callable(package) == CASE package = "jwt" -> {"encode", "decode"}
                       [] package = "jsonwebtoken" -> {"sign", "verify", "decode"}
                       [] package = "jose" -> {"jwtVerify", "decodeJwt", "SignJWT"}

\* The API a call is of, as <<package, function>>; only named imports of jose count.
Apis(f, n) ==
    LET c == f.nodes[n]
        main == IF f.language = "py" THEN "jwt" ELSE "jsonwebtoken"
        namespaces == {i.local : i \in {j \in Imports(f) : j.form = "namespace" /\ j.package = main}}
        named == {i \in Imports(f) : /\ i.form = "named" /\ i.local = c.name
                                     /\ i.package \in Packages(f.language)
                                     /\ i.original \in Callable(i.package)}
    IN IF c.object # "" THEN {<<main, c.name>> : x \in {y \in {c.object} \cap ({"jwt"} \cup namespaces) :
                                                          c.name \in Callable(main)}}
       ELSE {<<i.package, i.original>> : i \in named}
ApiOf(f, n) == LET A == Apis(f, n)
               IN IF A = {} THEN <<>>
                  ELSE IF \E a \in A : a[1] # "jose" THEN CHOOSE a \in A : a[1] # "jose"
                  ELSE CHOOSE a \in A : TRUE

\* The function whose name counts is the innermost that has one; an arrow has none.
NamedFunction(f, n) ==
    Innermost(f, n, LAMBDA m : \/ f.nodes[m].form \in {"declaration", "method"}
                               \/ f.nodes[m].form = "definition" /\ f.language = "py")

\* infer_jwt_display_name: from the words of the function's name, the variable
\* the result goes to and the text of the call.
JwtName(f, n) ==
    LET fn == NamedFunction(f, n)
        words == f.nodes[n].says \cup (IF fn = 0 THEN {} ELSE f.nodes[fn].says)
    IN CASE "refresh" \in words -> "refresh_jwt"
         [] "legacy" \in words /\ "refresh" \notin words -> "legacy_access_jwt"
         [] "access" \in words /\ {"refresh", "legacy"} \cap words = {} -> "access_jwt"
         [] OTHER -> NoName
JwtType(name) == CASE name \in {"access_jwt", "legacy_access_jwt"} -> "AccessJwt"
                   [] name = "refresh_jwt" -> "RefreshJwt"
                   [] OTHER -> "Unknown"

\* A key in quotes is only a "[key_reference]".
KeyField(f, n) ==
    LET key == f.nodes[n].key
    IN Only(Attr("key_reference"), IF key = <<>> THEN Known("missing", n)
                                   ELSE Field("present", {TextOf(key[1])}, "high", n, {}))

\* Issuer, audience and expiration of the payload, and the claims, which alone
\* are also looked up when the payload is a variable.
PayloadFields(f, n) ==
    LET p == f.nodes[n].payload
        of(d) == IF d = 0 THEN <<>> ELSE Claims(f.nodes[d].object, d)
    IN IF p[1] = "object" THEN Over(WithSpread(p[2], IssuePayload, n), Claims(p[2], n))
       ELSE of(Declared(f, n, p))

\* add_missing_for_issue_fields, add_missing_for_verify_fields
IssueDefaults(n) == Only(Attr("expiration"), Known("missing", n))
VerifyDefaults(n) == Over(Only(Attr("issuer"), Known("missing", n)), Only(Attr("audience"), Known("missing", n)))

\* js_jose_sign_call: what the setters of the chain are given.
ChainFields(f, n) ==
    LET chain == f.nodes[n].chain
        fields == AttrKeys([algorithm |-> "alg", issuer |-> "setIssuer", audience |-> "setAudience",
                            expiration |-> "setExpirationTime"])
        set == [k \in {x \in DOMAIN fields : fields[x] \in DOMAIN chain.members} |->
                   PresentNode(k, chain.members[fields[k]], n)]
    IN Over(set, Over(IF f.nodes[n].key = <<>> THEN <<>> ELSE KeyField(f, n),
                      Over(Claims(chain, n), IssueDefaults(n))))

JsSignFields(f, n) ==
    Over(WithOptions(Over(KeyField(f, n), PayloadFields(f, n)), f, n, f.nodes[n].options,
                     Declared(f, n, f.nodes[n].options), SignKeys, SignKeys),
         IssueDefaults(n))

JsVerifyFields(f, n, d, jose) ==
    LET o == f.nodes[n].options
        age == IF jose THEN "maxTokenAge" ELSE "maxAge"
        F == Over(KeyField(f, n), Only(Attr("signature_verification"), Field("present", {}, "high", n, {})))
        checks == WithExpiry(WithOptions(F, f, n, o, d, VerifyKeys(jose), VerifyKeys(jose)), f, n, o, d,
                             IsLiteral(o[2], "ignoreExpiration", "true"),
                             age \in DOMAIN o[2].members)
    IN Over(HeaderFields(f, n), Over(checks, VerifyDefaults(n)))

\* add_decode_without_verify_fields, also what overrides PyJWT's
DecodeFields(n) == Over(Only(Attr("signature_verification"), Known("missing", n)),
                        Only(Attr("expiry_enforcement"), Known("missing", n)))

\* The attributes options given in a variable may tell of.
PythonFields == Over(PythonKeys, AttrKeys([issuer |-> <<>>, audience |-> <<>>, algorithm |-> <<>>]))

PythonEncodeFields(f, n) ==
    LET c == f.nodes[n]
        given(k) == IF k \in DOMAIN c.keywords.members
                    THEN Only(Attr("algorithm"), PresentNode(Attr("algorithm"), c.keywords.members[k], n))
                    ELSE <<>>
        F == Over(given("alg"), Over(given("algorithm"), Over(KeyField(f, n), PayloadFields(f, n))))
    IN Over(WithOptions(F, f, n, c.options, Declared(f, n, c.options), PythonKeys, PythonFields),
            IssueDefaults(n))

\* python_decode_disables_verification
DisablesVerification(f, n, d) ==
    LET o == f.nodes[n].options
    IN \/ o[1] = "object" /\ IsLiteral(o[2], "verify_signature", "false")
       \/ d # 0 /\ Attr("operation") \in DOMAIN KeptFields(f, d)

KeywordKeys ==
    Over(AttrKeys([algorithm |-> <<"algorithms">>, issuer |-> <<"issuer">>, audience |-> <<"audience">>]),
         OptKeys([algorithms |-> <<"algorithms">>, issuer |-> <<"issuer">>, audience |-> <<"audience">>,
                  subject |-> <<"subject">>, nonce |-> <<"nonce">>, clock_tolerance |-> <<"leeway">>]))

PythonDecodeFields(f, n, d) ==
    LET c == f.nodes[n]
        signature == IF c.key = <<>> THEN Known("missing", n) ELSE Field("present", {}, "high", n, {})
        F == Over(Written(c.keywords, KeywordKeys, n),
                  Over(KeyField(f, n), Only(Attr("signature_verification"), signature)))
        checks == WithExpiry(WithOptions(F, f, n, c.options, d, PythonKeys, PythonFields), f, n, c.options, d,
                             IsLiteral(c.options[2], "verify_exp", "false"),
                             RequiresExp(c.options[2]))
    IN Over(IF DisablesVerification(f, n, d) THEN DecodeFields(n) ELSE <<>>,
            Over(HeaderFields(f, n), Over(checks, VerifyDefaults(n))))

JwtCall(f, n, api, operation, fields) ==
    [api |-> api, operation |-> operation, line |-> n, name |-> JwtName(f, n), fields |-> fields,
     hint |-> CASE api[1] = "jwt" -> "pyjwt" [] OTHER -> api[1]]

JwtCallAt(f, n, api, d) ==
    LET call(operation, fields) == <<JwtCall(f, n, api, operation, fields)>>
    IN IF api = <<>> THEN <<>>
       ELSE CASE api = <<"jose", "SignJWT">> -> call("issue", ChainFields(f, n))
              [] api[2] = "sign" -> call("issue", JsSignFields(f, n))
              [] api[2] \in {"verify", "jwtVerify"} ->
                   call("validate", JsVerifyFields(f, n, d, api[1] = "jose"))
              [] api[2] = "decodeJwt" \/ api = <<"jsonwebtoken", "decode">> ->
                   call("decode_without_verify", DecodeFields(n))
              [] api[2] = "encode" -> call("issue", PythonEncodeFields(f, n))
              [] OTHER -> call(IF DisablesVerification(f, n, d) THEN "decode_without_verify"
                               ELSE "validate", PythonDecodeFields(f, n, d))

JwtCalls(f) == FlattenSeq([n \in DOMAIN f.nodes |->
                  IF f.nodes[n].kind = "Jwt"
                  THEN JwtCallAt(f, n, ApiOf(f, n), Declared(f, n, f.nodes[n].options)) ELSE <<>>])

-----------------------------------------------------------------------------
(* Artifacts: the calls of one name in a file are one JWT, one without a    *)
(* name is a JWT of its own, under the id of all such JWTs in the file.     *)

OperationStage(c) == CASE c.operation = "decode_without_verify" -> "introspect"
                       [] OTHER -> c.operation

OperationDetector(c) == [issue |-> "jwt.issue", validate |-> "jwt.validate",
                         decode_without_verify |-> "jwt.decode_without_verify"][c.operation]
OperationEvidence(f, c) ==
    EvidenceAt(f, OperationDetector(c), c.api, c.line, c.name, OperationStage(c), "present", {})
FieldEvidence(f, c, k) ==
    LET x == c.fields[k] IN
    EvidenceAt(f, k, <<x.state>> \o c.api, x.line, c.name, FieldStage(k, OperationStage(c)),
               x.state, x.says)

\* The first three texts, and "..." when there are more.
FirstThree(texts) == {t \in texts : Cardinality({u \in texts : u.at < t.at}) < 3}
JoinedWords(texts) == (IF Cardinality(texts) > 3 THEN {"..."} ELSE {})
                      \cup UNION {t.says : t \in FirstThree(texts)}

\* Slip: the best of what the calls show.
BestOf(f, group, k) ==
    LET calls == {c \in group : k \in DOMAIN c.fields}
        states == {c.fields[k].state : c \in calls}
    IN IF calls = {} THEN [Unobserved EXCEPT !.value = {}]
       ELSE Observation(IF "present" \in states THEN "present" ELSE CHOOSE s \in states : TRUE,
                        JoinedWords(UNION {c.fields[k].value : c \in calls}), "high",
                        {FieldEvidence(f, c, k).id : c \in calls})

\* aggregate_field: the worst of what any call shows, with the evidence of all, and
\* what the first three of their values say.
Aggregate(f, group, k) ==
    LET calls == {c \in group : k \in DOMAIN c.fields}
        seen == {c.fields[k] : c \in calls}
        states == {x.state : x \in seen}
        confidences == {x.confidence : x \in seen}
    IN IF seen = {} THEN [Unobserved EXCEPT !.value = {}]
       ELSE Observation(CASE "missing" \in states -> "missing"
                          [] "dynamic" \in states /\ "missing" \notin states -> "dynamic"
                          [] states \cap {"missing", "dynamic"} = {}
                             /\ "framework_default" \in states -> "framework_default"
                          [] OTHER -> "present",
                        JoinedWords(UNION {x.value : x \in seen}),
                        IF "high" \in confidences THEN "high"
                        ELSE IF "medium" \in confidences THEN "medium" ELSE "low",
                        {FieldEvidence(f, c, k).id : c \in calls})

JwtObservations(f, group) ==
    [k \in JwtAttribute |->
        IF k # "operation" THEN Aggregate(f, group, Attr(k))
        ELSE Observation("present", {c.operation : c \in group}, "high",
                         {OperationEvidence(f, c).id : c \in group})]

BoundaryClaims(f, group) ==
    [k \in {"issuer", "audience", "workspace_id", "tenant_id", "org_id", "scopes"} |->
        Aggregate(f, group, Attr(k))]

\* boundary_attributes_from_jwt; a provider is known by the words of the issuer.
Providers == {"auth0", "okta", "oauth"}
Present(o, otherwise) == IF o.state = "present" THEN o ELSE otherwise
ProviderOf(issuer) == IF issuer.state # "present" THEN issuer
                      ELSE IF issuer.value \cap Providers = {} THEN [Unobserved EXCEPT !.value = {}]
                      ELSE [issuer EXCEPT !.value = @ \cap Providers]
JwtBoundary(observed) ==
    LET nothing == [Unobserved EXCEPT !.value = {}]
    IN [issuer |-> observed.issuer, audience |-> observed.audience, service |-> observed.workspace_id,
        environment |-> nothing, tenant |-> Present(observed.tenant_id, observed.org_id),
        provider |-> ProviderOf(observed.issuer), scope |-> observed.scopes,
        trust_boundary |-> Present(observed.audience, nothing)]

\* Groups by the lines of their first calls; in what order means nothing.
JwtGroups(calls) ==
    LET same(i, j) == i = j \/ (calls[i].name = calls[j].name /\ calls[i].name # NoName)
        first(i) == \A j \in 1..(i - 1) : ~same(i, j)
    IN FlattenSeq([i \in DOMAIN calls |->
                     IF first(i) THEN <<{calls[j] : j \in {k \in DOMAIN calls : same(i, k)}}>> ELSE <<>>])

JwtArtifact(f, group) ==
    LET line == Least({c.line : c \in group})
        name == (CHOOSE c \in group : TRUE).name
    IN [Artifact(f, "jwt.validation", <<JwtType(name)>>, NoLine, line, JwtType(name), name,
                 {c.hint : c \in group},
                 UNION {{OperationEvidence(f, c)} \cup {FieldEvidence(f, c, k) : k \in DOMAIN c.fields} :
                        c \in group})
          EXCEPT !.jwt = JwtObservations(f, group), !.boundary = JwtBoundary(BoundaryClaims(f, group))]

JwtArtifacts(f) == Each(LAMBDA group : JwtArtifact(f, group), JwtGroups(JwtCalls(f)))
=============================================================================
