------------------------------- MODULE MCAudit --------------------------------
(* Small repositories for Audit. *)
EXTENDS Audit

File(path, language) == [path |-> path, language |-> language, deep |-> FALSE, bare |-> FALSE]

\* A name, a number and a width for each thing the cookie rules tell apart.
MCHostNames == {"__Host-id"}
MCSecureNames == {"__Secure-id"}
MCSessionNames == {"sid", "sessionid", "session"}
MCNumber == [x \in {"3600", "9000000"} |-> IF x = "3600" THEN 3600 ELSE 9000000]
MCDays == [x \in {"timedelta(days=90)"} |-> 90]
MCFarFuture == {"2038"}
MCSeconds == [x \in {"5s", "300s"} |-> IF x = "5s" THEN 5 ELSE 300]

-----------------------------------------------------------------------------
(* Cookies: a wrapper, options in a variable, a header, session(), Django. *)
Fn(form, name, says, parameters) ==
    [kind |-> "Function", form |-> form, name |-> name, says |-> says, parameters |-> parameters,
     decorators |-> {}, exported |-> FALSE, within |-> 0]
C == INSTANCE CookieCode
CookieObject(attributes, spread) == C!Object(attributes, {}, spread, FALSE, C!NoMember)
Yes(v) == C!Member("yes", v)
No == C!Member("false", "false")
CookieNode(api, name, options) ==
    [kind |-> "Cookie", api |-> api, name |-> name, options |-> options, within |-> 0]
Opts(name, object) == [kind |-> "Options", name |-> name, object |-> object, within |-> 0]

Safe == [httpOnly |-> Yes("true"), secure |-> Yes("true"), sameSite |-> Yes("lax"), maxAge |-> Yes("3600")]
CookieFiles == << [File(<<"src", "app.js">>, "js") EXCEPT !.bare = TRUE], File(<<"src", "views.py">>, "py") >>
CookieStatements ==
    << << Fn("declaration", "setAuth", {}, <<"name", "value">>),
          CookieNode("cookie", <<"identifier", "name">>, <<"identifier", "opts">>),
          CookieNode("cookie", <<"literal", "sid">>, <<"object", CookieObject(Safe, FALSE)>>),
          Opts("opts", CookieObject([secure |-> Yes("true"), httpOnly |-> Yes("true")], TRUE)),
          Opts("opts", CookieObject([sameSite |-> Yes("none"), secure |-> No], FALSE)),
          [kind |-> "Call", name |-> "setAuth", arguments |-> << <<"literal", "sid">>, <<"expression", "">> >>,
           code |-> {}, text |-> {}, callee |-> "setAuth", key |-> "", reads |-> {}, form |-> "arrow",
           parameters |-> <<>>, within |-> 0],
          CookieNode("session", <<"expression", "">>, <<"object", CookieObject([secure |-> No], FALSE)>>),
          CookieNode("session", <<"expression", "">>, <<"config", "name">>),
          [kind |-> "Header", within |-> 0,
           cookies |-> << [name |-> "__Host-id", partitioned |-> TRUE,
                           attributes |-> [secure |-> Yes("true"), domain |-> Yes("broad"), path |-> Yes("/app")]],
                          [name |-> "__Host-id", partitioned |-> FALSE, attributes |-> <<>>] >>] >>,
       << [kind |-> "Setting", attribute |-> "secure", member |-> No, within |-> 0],
          CookieNode("set_cookie", <<"literal", "sid">>,
                     <<"object", CookieObject([maxAge |-> Yes("9000000"), httpOnly |-> Yes("true")], FALSE)>>) >> >>

-----------------------------------------------------------------------------
(* JWTs: options and payloads in place and in variables, two libraries, key  *)
(* headers, and calls of one name.                                          *)
J == INSTANCE JwtCode
Text(v) == J!Value(TRUE, 0, {v})
NameAt(place, says) == J!Value(FALSE, place, says)
Names == << {"exp"}, {"false"}, {"private"}, {"public"}, {"true"}, {} >>    \* in order
Name(says) == NameAt(CHOOSE place \in DOMAIN Names : Names[place] = says, says)
Obj(members) == J!JwtObject(members, FALSE)
None == <<"none", "">>
JwtNode(object, name, says, key, payload, options) ==
    [kind |-> "Jwt", object |-> object, name |-> name, says |-> says, key |-> <<Name(key)>>,
     payload |-> payload, options |-> options, keywords |-> Obj(<<>>), chain |-> Obj(<<>>), within |-> 0]
Strict == [algorithms |-> Text("asymmetric"), issuer |-> Text("iss"), audience |-> Text("aud")]
JwtFiles == << File(<<"src", "auth.js">>, "js") >>
JwtStatements ==
    << << Fn("declaration", "verifyAccess", {"access"}, <<"token">>),
          JwtNode("jwt", "verify", {"access"}, {"public"}, None, <<"object", Obj(Strict)>>),
          JwtNode("jwt", "verify", {}, {"public"}, None, <<"identifier", "opts">>),
          JwtNode("jwt", "decode", {"access"}, {}, None, None),
          JwtNode("jwt", "sign", {"access"}, {"private"}, <<"object", Obj([exp |-> Name({"exp"})])>>,
                  <<"object", Obj([algorithm |-> Text("hmac")])>>),
          [kind |-> "Object", name |-> "opts", within |-> 0,
           object |-> Obj([ignoreExpiration |-> Name({"true"}), complete |-> Name({"true"})])],
          [kind |-> "HeaderUse", header |-> "jwt.header.jku", use |-> "other", map |-> "", within |-> 0] >> >>

\* Calls of one name with more algorithms than an observation keeps, and another
\* library's in a file of another language.
AccessJwt(name, options) == JwtNode("jwt", name, {"access"}, {"private"}, None, <<"object", Obj(options)>>)
CrowdFiles == << File(<<"src", "auth.js">>, "js"), File(<<"src", "auth.py">>, "py") >>
CrowdStatements ==
    << << AccessJwt("verify", Strict),
          AccessJwt("sign", [algorithm |-> NameAt(9, {"hmac"})]),
          AccessJwt("sign", [algorithm |-> NameAt(8, {})]),
          AccessJwt("sign", [algorithm |-> NameAt(-1, {})]) >>,
       << [JwtNode("jwt", "decode", {}, {"public"}, None, <<"object", Obj([verify_signature |-> Name({"false"})])>>)
             EXCEPT !.keywords = Obj([algorithms |-> Text("none")])],
          JwtNode("jwt", "encode", {"refresh"}, {"private"}, <<"identifier", "payload">>, None) >> >>

-----------------------------------------------------------------------------
(* Tokens: browser storage, headers, query parameters and configuration, in  *)
(* a client, a server and a configuration file.                             *)
Words == INSTANCE BearerCode
Call(code1, literals) == Words!Statement("Call", code1, literals)
TokenFiles == << File(<<"web", "client", "store.js">>, "js"), File(<<"web", "config", "app.json">>, "json"),
                 File(<<"web", "server", "api.js">>, "js") >>
TokenStatements ==
    << << [Call({"localstorage_setitem", "access_token"}, {}) EXCEPT !.key = "access_token"],
          [Call({"sessionstorage_setitem", "api_key", "token"}, {}) EXCEPT !.key = "custom"],
          Call({"fetch", "headers", "authorization", "bearer", "token"}, {"internal"}),
          [Call({"fetch", "token"}, {"url parameter"}) EXCEPT
             !.reads = {Words!QueryRead(FALSE, "access_token", {"searchparams"})}] >>,
       << Words!Statement("Line", {}, {"api_key", "secret literal", "production"}),
          Words!Statement("Line", {}, {"api_key", "next_public", "staging"}) >>,
       << Call({"req_headers", "authorization", "token"}, {}),
          Call({"verify", "token", "authorization"}, {}),
          Call({"generate", "api_key", "token", "issuer"}, {"production"}),
          [Call({"handler", "req.query"}, {}) EXCEPT
             !.reads = {Words!QueryRead(FALSE, "access_token", {"req.query"}),
                        Words!QueryRead(TRUE, "token", {"token"})}] >> >>

-----------------------------------------------------------------------------
(* Sessions: routes, handlers, an exported one and Django's login.           *)
Calls1(callee, code1, literals) == [Call(code1, literals) EXCEPT !.callee = callee]
Assign(code1) == Words!Statement("Assign", code1, {})
Route(code1, literals) == Words!Statement("Route", code1, literals)
Handler(name, says, exported) == [Fn("declaration", name, says, <<>>) EXCEPT !.exported = exported]
SessionFiles == << File(<<"src", "routes.js">>, "js"), File(<<"src", "views.py">>, "py") >>
SessionStatements ==
    << << Route({"app.post"}, {"login"}),
          Handler("makeAdmin", {"make_admin"}, FALSE),
          Handler("signIn", {"signin"}, TRUE),
          Calls1("regenerate", {"req_session", "session_regenerate"}, {}),
          Assign({"req_session", "user"}),
          Calls1("set", {"cookies_set", "session"}, {"cookies()"}),
          Calls1("delete", {"cookies_delete"}, {"cookies()", "session"}) >>,
       << [Fn("definition", "login_view", {"login"}, <<>>) EXCEPT !.decorators = {"app.post"}],
          Calls1("login", {"user"}, {}),
          Calls1("cycle_key", {"req_session", "cycle_key"}, {}) >> >>

-----------------------------------------------------------------------------
(* Authorization flows, and reset tokens in a file with one of another.      *)
FlowFiles == << File(<<"src", "oauth.js">>, "js") >>
FlowStatements ==
    << << Call({"authorization_url", "state", "code_challenge", "nonce", "openid"}, {"response_type_code"}),
          Call({"oauth2strategy", "state", "openid"}, {"redirect_uri", "host_literal"}),
          Call({"oidcprovider", "nonce"}, {"response_type_code", "redirect_uri"}),
          Assign({"code_verifier"}),
          Assign({"state", "req.query"}),
          Assign({"state_compared", "session"}),
          Call({"verify", "nonce_verified"}, {}) >> >>

ResetFiles == << File(<<"src", "accounts.py">>, "py"), File(<<"src", "oauth.js">>, "js") >>
ResetStatements ==
    << << Call({"authorize_redirect", "state_literal"}, {"redirect_uri", "wildcard_literal"}),
          Call({"create_reset_token", "verification_token"}, {}),
          Assign({"expires_at", "s256"}),
          Call({"session", "delete"}, {}) >>,
       << Call({"oidcprovider", "nonce"}, {"response_type_code", "redirect_uri"}),
          Assign({"state", "req.query"}) >> >>

-----------------------------------------------------------------------------
(* Statements that what is added to them changes: an exported login, and a   *)
(* queue's handler that becomes one; a route whose text grows; a parameter   *)
(* that is read by its name and under a computed one; lines that make their file one *)
(* of expected results.                                                     *)
HandlerFiles == << File(<<"src", "routes.js">>, "js") >>
HandlerStatements ==
    << << Handler("login", {"login"}, TRUE),
          Route({"queue"}, {}),
          Calls1("regenerate", {"req_session", "session_regenerate"}, {}),
          Calls1("find", {"signin"}, {}) >> >>

QueryCall(dynamic) == [Call({"handler", "req.query"}, {}) EXCEPT
                         !.reads = {Words!QueryRead(dynamic, "access_token", {"req.query"})}]
ConfigLine(literals) == Words!Statement("Line", {}, literals)
GrowingFiles == << File(<<"web", "client", "api.py">>, "py"), File(<<"web", "expected.json">>, "json"),
                   File(<<"web", "server", "api.js">>, "js") >>
GrowingStatements ==
    << << Assign({"api_key", "token"}),
          Call({"internal", "api_key"}, {"url parameter"}) >>,
       << ConfigLine({"api_key", "next_public"}),
          ConfigLine({"expected_artifacts"}),
          ConfigLine({"expected_findings"}) >>,
       << Route({"post", "token"}, {"url parameter"}),
          [Route({"localstorage_setitem", "access_token"}, {}) EXCEPT !.key = "access_token"],
          QueryCall(FALSE),
          QueryCall(TRUE),
          Call({"req_headers", "authorization"}, {}),
          Call({"jwt.verify", "x_api_key"}, {}) >> >>

-----------------------------------------------------------------------------
Repository(files, statements, nodes) == [files |-> files, statements |-> statements, nodes |-> nodes]
SmallRepositories ==
    << Repository(CookieFiles, CookieStatements, 3), Repository(JwtFiles, JwtStatements, 4),
       Repository(TokenFiles, TokenStatements, 3), Repository(SessionFiles, SessionStatements, 3),
       Repository(FlowFiles, FlowStatements, 4), Repository(ResetFiles, ResetStatements, 4),
       Repository(HandlerFiles, HandlerStatements, 4), Repository(GrowingFiles, GrowingStatements, 3),
       Repository(CrowdFiles, CrowdStatements, 4) >>

\* By a name of its own, TLC evaluates the repositories once and not at every use.
MCRepositories == SmallRepositories
=============================================================================
