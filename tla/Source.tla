-------------------------------- MODULE Source --------------------------------
(***************************************************************************)
(* A source file as the detectors read it: f.path, the directories and the   *)
(* name; f.language ("js" or "py", or "json", "yaml" or "toml"); f.deep,     *)
(* whether some node is too deep to be visited; f.bare, whether nothing is   *)
(* before its first node, not a comment or an import; and f.nodes, the      *)
(* syntax nodes some detector looks at, in preorder.                         *)
(* A node's line is its index, and `within` is the index of the innermost  *)
(* function around it, 0 outside of one.  Every detector takes the nodes of *)
(* its own kinds; the one kind they share is                                *)
(*   Function   a function: its form, its name, its parameters in order,    *)
(*              the words its name and its decorators say, and whether it is *)
(*              exported.                                                    *)
(***************************************************************************)
EXTENDS Report, SequencesExt

\* The name of a TypeScript file with JSX in it.
EndsWithTsx(path) == path[Len(path)] \in {"page.tsx", "client.tsx"}

Nodes(f, kind) == {n \in DOMAIN f.nodes : f.nodes[n].kind = kind}

\* What F says and, where it says nothing, G; and what one thing is.
Over(F, G) == [k \in DOMAIN F \cup DOMAIN G |-> IF k \in DOMAIN F THEN F[k] ELSE G[k]]
Only(k, v) == [x \in {k} |-> v]

IsSequence(s) == s \in Seq(Range1(s))
Each(Op(_), s) == [k \in DOMAIN s |-> Op(s[k])]

LastOf(S) == CHOOSE n \in S : \A m \in S : m <= n

\* Node n is in the function fn, or in one in it.
Inside(f, n, fn) ==
    LET up[m \in 0..Len(f.nodes)] == m # 0 /\ (m = fn \/ up[f.nodes[m].within])
    IN up[f.nodes[n].within]

\* The innermost function around n that is a scope to the detector, 0 for none.
Innermost(f, n, IsScope(_)) ==
    LET up[m \in 0..Len(f.nodes)] ==
          IF m = 0 THEN 0 ELSE IF IsScope(m) THEN m ELSE up[f.nodes[m].within]
    IN up[f.nodes[n].within]

\* Evidence found on a line of a file.
EvidenceAt(f, detector, key, line, name, stage, state, says) ==
    [id |-> <<f.path, detector, key, line, name>>, stage |-> stage, detector |-> detector,
     file |-> f.path, line |-> line, dynamic |-> state = "dynamic",
     default |-> state = "framework_default", says |-> says]

\* Slip: the id of an artifact says nothing of its file.
AnyFileArtifact(f, detector, key, keyLine, line, type, name, hints, evidence) ==
    [id |-> <<detector, key, keyLine, name>>, type |-> type, name |-> name,
     file |-> f.path, line |-> line, hints |-> hints, evidence |-> evidence,
     cookie |-> NoAttributes, jwt |-> NoAttributes, boundary |-> NoAttributes, scope |-> 0]

\* An artifact; its id is hashed from the facts in `key` and its line, when that
\* is not NoLine.
Artifact(f, detector, key, keyLine, line, type, name, hints, evidence) ==
    [id |-> <<f.path, detector, key, keyLine, name>>, type |-> type, name |-> name,
     file |-> f.path, line |-> line, hints |-> hints, evidence |-> evidence,
     cookie |-> NoAttributes, jwt |-> NoAttributes, boundary |-> NoAttributes, scope |-> 0]
=============================================================================
