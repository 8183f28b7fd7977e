------------------------------ MODULE CookieCode ------------------------------
(***************************************************************************)
(* The cookie detector (sessionscope-detectors, cookies).  Its nodes:       *)
(*   Options    name = { ... }: options kept in a variable                  *)
(*   Cookie     a call of a cookie API                                      *)
(*   Header     a call that sets a Set-Cookie header                        *)
(*   Call       any other call: that of a wrapper, perhaps                  *)
(*   Setting    a Django SESSION_COOKIE_* assignment                        *)
(* An argument is <<"literal", text>>, <<"identifier", name>> or            *)
(* <<"expression", "">>.  Options are <<"object", members>>,                *)
(* <<"identifier", name>>, <<"expression", "">>, <<"none", "">>, Python's   *)
(* <<"splat", keywords, name>>, or the <<"config", name>> of session(config), *)
(* where the name is "" when config is no identifier.                       *)
(***************************************************************************)
EXTENDS CookieRules, Source

Attribute == {"httpOnly", "secure", "sameSite", "maxAge", "expires", "path", "domain"}

\* An object: the attributes written as key: value, those written {secure} or
\* [key]: value, whether a spread is in it, whether it says signed: true, and
\* the partitioned member's value.  A value is [literal, value]: literal is "no"
\* for an expression and "false" for false, None, null or an empty string.
Member(literal, value) == [literal |-> literal, value |-> value]
NoMember == Member("absent", NoValue)
Object(attributes, computed, spread, signed, partitioned) ==
    [attributes |-> attributes, computed |-> computed, spread |-> spread,
     signed |-> signed, partitioned |-> partitioned]

\* attribute_from_value, attribute_from_named_value
FromValue(m, line) ==
    LET s == CASE m.literal = "false" -> <<"missing", "high">>
               [] m.literal = "yes" -> <<"present", "high">>
               [] OTHER -> <<"dynamic", "medium">>
    IN [state |-> s[1], confidence |-> s[2], value |-> m.value, line |-> line]

Options(attributes, partitioned, signed, dynamic) ==
    [attributes |-> attributes, partitioned |-> partitioned, signed |-> signed, dynamic |-> dynamic]
NoOptions == Options(<<>>, <<>>, FALSE, FALSE)
DynamicOptions == Options(<<>>, <<>>, FALSE, TRUE)

\* What is written key: value is an observation.  A shorthand member is not a
\* pair, a computed key is no attribute's: neither leaves a trace, nor does the
\* splat in a Python dictionary.
FromObject(o, line, language) ==
    Options([k \in DOMAIN o.attributes |-> FromValue(o.attributes[k], line)],
            IF o.partitioned = NoMember THEN <<>> ELSE <<FromValue(o.partitioned, line)>>,
            o.signed /\ language = "js",
            o.spread /\ language = "js")

-----------------------------------------------------------------------------
(* Scopes, and options in variables.                                        *)

\* is_function_node: methods and function expressions are not functions to it.
IsScope(f, n) == /\ f.nodes[n].kind \in {"Function", "Route"}
                 /\ f.language = "js" => f.nodes[n].form \in {"declaration", "arrow"}
Handler(f, n) == Innermost(f, n, LAMBDA m : IsScope(f, m))

\* scope_id: a scope is the byte its function starts at, and the top level is 0: a
\* function at the first byte of its file is in the scope of the top level.  An
\* arrow or a route's handler is part of a statement, `export` and a decorator come
\* before the function.
AtFirstByte(f, n) ==
    LET c == f.nodes[n] IN
    /\ f.bare /\ n = 1
    /\ c.kind = "Function" /\ c.form \in {"declaration", "definition"}
    /\ ~c.exported /\ c.decorators = {}
Start(f, fn) == IF fn # 0 /\ AtFirstByte(f, fn) THEN 0 ELSE fn
Scope(f, n) == Start(f, Handler(f, n))

\* A later assignment in a scope replaces an earlier one, wherever the use is.
Aliases(f, scope, name) ==
    {n \in Nodes(f, "Options") : Scope(f, n) = scope /\ f.nodes[n].name = name}

\* alias_lookup: the scope of the use, then the top level, none in between.
AliasOf(f, A) == IF A = {} THEN DynamicOptions
                 ELSE FromObject(f.nodes[LastOf(A)].object, LastOf(A), f.language)
Alias(f, scope, name) ==
    AliasOf(f, Aliases(f, IF Aliases(f, scope, name) = {} THEN 0 ELSE scope, name))

\* js_options_from_node; of a Python call, the keywords with the splat over them.
Splat(splat, own) ==
    Options(Over(splat.attributes, own.attributes),
            IF splat.partitioned = <<>> THEN own.partitioned ELSE splat.partitioned,
            FALSE, splat.dynamic)
OptionsOf(f, n) ==
    LET o == f.nodes[n].options IN
    CASE o[1] = "none" -> NoOptions
      [] o[1] = "object" -> FromObject(o[2], n, f.language)
      [] o[1] = "identifier" -> Alias(f, Scope(f, n), o[2])
      [] o[1] = "splat" -> Splat(Alias(f, Scope(f, n), o[3]), FromObject(o[2], n, f.language))
      [] OTHER -> DynamicOptions

\* js_session_middleware_cookie_call: the options of session() are the `cookie`
\* member of its argument, none when the argument is not an object.
SessionOptions(f, n) ==
    LET signs == f.nodes[n].api = "cookieSession"
        o == IF ~signs /\ f.nodes[n].options[1] = "config" THEN NoOptions ELSE OptionsOf(f, n)
    IN [o EXCEPT !.signed = @ \/ signs]

-----------------------------------------------------------------------------
(* Calls.                                                                   *)
ApiName(f, n) == CASE f.language = "py" -> "python.set_cookie"
                   [] f.nodes[n].api \in {"session", "cookieSession"} -> "express.session.middleware"
                   [] f.nodes[n].api = "cookies.set" -> "next.cookies.set"
                   [] OTHER -> "javascript.cookie"
Hint(api) == CASE api \in {"express.session.middleware", "javascript.cookie"} -> "express"
                  [] api = "next.cookies.set" -> "nextjs"
                  [] api = "set-cookie.header" -> "set-cookie-header"
                  [] api = "django.settings" -> "django"
                  [] OTHER -> "python"

\* The column tells the cookies of one header apart; no other line has two.
CookieCall(api, hint, line, column, name, scope, o) ==
    [api |-> api, hint |-> hint, line |-> line, column |-> column, name |-> name, scope |-> scope,
     signed |-> o.signed, attributes |-> o.attributes, partitioned |-> o.partitioned,
     dynamic |-> o.dynamic]

Parameters(f, fn) == IF fn = 0 THEN <<>> ELSE f.nodes[fn].parameters
StaticName(argument) == IF argument[1] = "literal" THEN argument[2] ELSE NoName

\* js_cookie_call and python_cookie_call, unless the name is one of `parameters`.
CallAt(f, n, parameters) ==
    LET c == f.nodes[n]
        api == ApiName(f, n)
        middleware == api = "express.session.middleware"
    IN IF ~middleware /\ c.name[1] = "identifier" /\ c.name[2] \in Range1(parameters) THEN <<>>
       ELSE <<CookieCall(api, Hint(api), n, 1,
                IF middleware /\ StaticName(c.name) = NoName THEN "session" ELSE StaticName(c.name),
                Scope(f, n),
                IF middleware THEN SessionOptions(f, n) ELSE OptionsOf(f, n))>>

\* set_cookie_call_from_header: what a Set-Cookie string says is certain.
HeaderCookie(f, n, k) ==
    LET api == "set-cookie.header"
        c == f.nodes[n].cookies[k]
        present(m) == [state |-> "present", confidence |-> "high", value |-> m.value,
                       line |-> n]
    IN CookieCall(api, Hint(api), n, k, c.name, Scope(f, n),
           Options([x \in DOMAIN c.attributes |-> present(c.attributes[x])],
                   IF c.partitioned THEN <<present(Member("yes", "true"))>> ELSE <<>>,
                   FALSE, FALSE))

\* set_cookie_header_calls_from_value_node: with no literal one dynamic cookie,
\* otherwise one cookie for each literal and nothing for the rest.
HeaderCalls(f, n) ==
    LET api == "set-cookie.header"
        cookies == f.nodes[n].cookies
    IN IF cookies = <<>>
       THEN <<CookieCall(api, Hint(api), n, 1, NoName, Scope(f, n), DynamicOptions)>>
       ELSE [k \in DOMAIN cookies |-> HeaderCookie(f, n, k)]

DirectCalls(f) ==
    FlattenSeq([n \in DOMAIN f.nodes |->
        CASE f.nodes[n].kind = "Cookie" -> CallAt(f, n, Parameters(f, Handler(f, n)))
          [] f.nodes[n].kind = "Header" -> HeaderCalls(f, n)
          [] OTHER -> <<>>])

(* Wrappers: functions that pass a parameter on as the name of a cookie.    *)

\* The first argument of a call of a cookie API: that of the middleware is its options.
FirstArgument(f, n) ==
    LET c == f.nodes[n] IN
    CASE ApiName(f, n) # "express.session.middleware" -> c.name
      [] c.api = "cookieSession" -> c.options
      [] c.options[1] = "config" /\ c.api # "cookieSession" -> <<"identifier", c.options[2]>>
      [] OTHER -> <<"expression", "">>

\* find_js_wrapper_template: the first such call of the function or one in it, but the
\* search stops at any other call and does not enter the functions given to it.
InCallback(f, n, fn) == \E m \in Nodes(f, "Route") : Inside(f, n, m) /\ Inside(f, m, fn)
Templates(f, fn) ==
    {n \in Nodes(f, "Cookie") : /\ Inside(f, n, fn) /\ ~InCallback(f, n, fn)
                            /\ FirstArgument(f, n)[1] = "identifier"
                            /\ FirstArgument(f, n)[2] \in Range1(f.nodes[fn].parameters)}
IsWrapper(f, fn) == IsScope(f, fn) /\ Templates(f, fn) # {}

\* By name, and the last of that name, wherever it is defined.
Wrappers(f, name) == {fn \in Nodes(f, "Function") : IsWrapper(f, fn) /\ f.nodes[fn].name = name}

WrapperCall(f, n, t, index) ==
    LET arguments == f.nodes[n].arguments
    IN IF index > Len(arguments) \/ StaticName(arguments[index]) = NoName THEN <<>>
       ELSE <<[CallAt(f, t, <<>>)[1] EXCEPT !.hint = "wrapper", !.line = n, !.scope = Scope(f, n),
                                            !.name = arguments[index][2]]>>
PassedOn(f, fn, t) == SelectInSeq(f.nodes[fn].parameters, LAMBDA p : p = FirstArgument(f, t)[2])
CallOfWrapper(f, n, fn) ==
    WrapperCall(f, n, Least(Templates(f, fn)), PassedOn(f, fn, Least(Templates(f, fn))))
WrapperCalls(f) ==
    FlattenSeq([n \in DOMAIN f.nodes |->
        IF f.nodes[n].kind # "Call" \/ Wrappers(f, f.nodes[n].name) = {} THEN <<>>
        ELSE CallOfWrapper(f, n, LastOf(Wrappers(f, f.nodes[n].name)))])

\* One cookie for all the settings at the top level of a file.
SettingCalls(f) ==
    LET at == {n \in Nodes(f, "Setting") : Scope(f, n) = 0}
        on(k) == {n \in at : f.nodes[n].attribute = k}
        kinds == {f.nodes[n].attribute : n \in at}
    IN IF at = {} \/ f.language # "py" THEN <<>>
       ELSE <<CookieCall("django.settings", "django", Least(at), 1, "sessionid", 0,
                Options([k \in kinds |-> FromValue(f.nodes[LastOf(on(k))].member, LastOf(on(k)))],
                        <<>>, FALSE, FALSE))>>

CookieCalls(f) == DirectCalls(f) \o WrapperCalls(f) \o SettingCalls(f)

-----------------------------------------------------------------------------
(* Artifacts and evidence.                                                  *)

\* The defaults of the APIs that have them; the rest are missing.
FrameworkDefault(api, k) ==
    LET lifetime == {"maxAge", "expires", "domain"} IN
    CASE k = "path" /\ api # "set-cookie.header" -> "/"
      [] api = "express.session.middleware" /\ k \in lifetime -> NoValue
      [] api = "express.session.middleware" ->
           [httpOnly |-> "true", secure |-> "false", sameSite |-> "none"][k]
      [] api = "python.set_cookie" /\ k \in lifetime -> NoValue
      [] api = "python.set_cookie" ->
           [httpOnly |-> "false", secure |-> "false", sameSite |-> "lax"][k]
      [] api = "django.settings" /\ k \in {"expires", "domain"} -> NoValue
      [] api = "django.settings" ->
           [httpOnly |-> "true", secure |-> "false", sameSite |-> "lax", maxAge |-> "1209600"][k]
      [] OTHER -> "no default"

DefaultAttribute(c, k) ==
    LET of(state, value, confidence) ==
          [state |-> state, value |-> value, confidence |-> confidence, line |-> c.line]
    IN IF c.dynamic THEN of("dynamic", NoValue, "medium")
       ELSE IF FrameworkDefault(c.api, k) # "no default"
            THEN of("framework_default", FrameworkDefault(c.api, k), "low")
       ELSE of("missing", NoValue, "high")

AttributeOf(c, k) == IF k \in DOMAIN c.attributes THEN c.attributes[k] ELSE DefaultAttribute(c, k)

StageOfAttribute(k) == CASE k = "httpOnly" -> "store"
                         [] k \in {"maxAge", "expires"} -> "expire"
                         [] OTHER -> "transmit"

\* An id is the hash of these facts: two calls of one wrapper with one name share
\* the evidence of the attributes, which are those of the wrapper's own line.
AttributeEvidence(f, c, k) ==
    LET a == AttributeOf(c, k) IN
    EvidenceAt(f, "cookie.attribute", <<k, a.state, c.api, c.column>>, a.line, c.name,
               StageOfAttribute(k), a.state, {})
NameState(c) == IF c.name = NoName THEN "dynamic" ELSE "present"
StoreEvidence(f, c) ==
    EvidenceAt(f, "cookie.set", <<c.api, c.column>>, c.line, c.name, "store", NameState(c), {})
PrefixEvidence(f, c) ==
    EvidenceAt(f, "cookie.attribute.name_prefix", <<c.api, c.column>>, c.line, c.name,
               "store", NameState(c), {})
PartitionedEvidence(f, c) ==
    {EvidenceAt(f, "cookie.attribute.partitioned", <<p.state, c.api, c.column>>, p.line, c.name,
                "transmit", p.state, {}) :
        p \in {q \in Range1(c.partitioned) : q.state # "missing"}}

\* Slip: two writes of one name anywhere in the file.
ConflictsOfFile(f, calls, c) ==
    LET same == {k \in DOMAIN calls : calls[k].name = c.name} IN
    IF c.name = NoName \/ Cardinality(same) < 2 THEN {}
    ELSE {[EvidenceAt(f, "cookie.conflicting_writes", <<>>, 0, c.name, "store", "dynamic", {})
             EXCEPT !.line = calls[Least(same)].line]}

\* emit_conflicting_write_evidence: two writes of one name in one scope.
Conflicts(f, calls, c) ==
    LET same == {k \in DOMAIN calls : calls[k].scope = c.scope /\ calls[k].name = c.name} IN
    IF c.name = NoName \/ Cardinality(same) < 2 THEN {}
    ELSE {[EvidenceAt(f, "cookie.conflicting_writes", <<>>, c.scope, c.name, "store", "dynamic", {})
             EXCEPT !.line = calls[Least(same)].line]}

CookieType(c) == CASE c.signed -> "SignedCookie"
                   [] c.name \in SessionNames -> "SessionCookie"
                   [] OTHER -> "Unknown"

CookieArtifact(f, calls, c) ==
    [Artifact(f, "cookie.set", <<CookieType(c), c.api, c.column>>, c.line, c.line, CookieType(c), c.name,
              {c.hint},
              {AttributeEvidence(f, c, k) : k \in Attribute}
              \cup {StoreEvidence(f, c), PrefixEvidence(f, c)}
              \cup PartitionedEvidence(f, c) \cup Conflicts(f, calls, c))
       EXCEPT !.cookie = [k \in Attribute |->
                LET a == AttributeOf(c, k) IN
                Observation(a.state, a.value, a.confidence, {AttributeEvidence(f, c, k).id})]]

ArtifactsOf(f, calls) == [k \in DOMAIN calls |-> CookieArtifact(f, calls, calls[k])]
CookieArtifacts(f) == ArtifactsOf(f, CookieCalls(f))
=============================================================================
