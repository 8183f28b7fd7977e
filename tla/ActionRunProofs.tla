-------------------------- MODULE ActionRunProofs --------------------------
(***************************************************************************)
(* Proofs about PolicyGate and about ActionRun, which composes it with the  *)
(* script of the action.  First the gate, for all findings, files, command  *)
(* lines and configurations: what a command judges by, what it has written  *)
(* when it does, and what it has read.  Then the script, for any number of  *)
(* uses: the status of a use follows its inputs and its own scan, and what  *)
(* it published is there.  The gate's invariant holds beside the script.    *)
(***************************************************************************)
EXTENDS ActionRun, TLAPS

-----------------------------------------------------------------------------
(* The gate.                                                                *)
Settled == exit \in {"ok", "blocked"}
Writing == pc \in {"write", "fill"} \/ Settled

\* Which commands reach a step.
RightKind ==
    /\ pc = "config" => cmd.kind # "baseline"
    /\ pc = "scan" => cmd.kind = "scan"
    /\ pc = "read" => cmd.kind # "scan"
    /\ pc = "fill" => todo # <<>>

\* The options in force are those of the command and the file.
PolicyBuilt ==
    (cmd.kind # "baseline" /\ (pc \in {"scan", "read"} \/ Writing)) => policy = BuildOptions

\* Nothing is written before the report is there, nor ever but the outputs.
OnlyOutputsTouched ==
    /\ pc \in {"config", "scan", "read"} => disk = start
    /\ pc # "idle" => \A p \in Paths : p \in Outputs \/ disk[p] = start[p]

\* An output is written or still to be written.
WrittenOrTodo ==
    Writing =>
        /\ \A j \in DOMAIN todo : \E k \in DOMAIN cmd.outs : todo[j] = cmd.outs[k]
        /\ \A k \in DOMAIN cmd.outs :
            \/ disk[cmd.outs[k].path] = Rendered(cmd.outs[k])
            \/ \E j \in DOMAIN todo : todo[j] = cmd.outs[k]

\* When a command is judged nothing is left to write.
AllDone == Settled => todo = <<>>

\* What evaluate judges is the report it was given.
ReportRead ==
    (cmd.kind = "evaluate" /\ Writing) =>
        start[cmd.from].kind = "report" /\ report = start[cmd.from].ids

GateInv ==
    /\ TypeOK /\ RightKind /\ PolicyBuilt /\ OnlyOutputsTouched /\ WrittenOrTodo /\ AllDone
    /\ ReportRead /\ VerdictFollowsPolicy /\ OnlyWholeInputs

-----------------------------------------------------------------------------
\* Merging two policies gives a policy.
LEMMA InheritType ==
    ASSUME NEW low \in Policy, NEW high \in Policy
    PROVE Inherit(low, high) \in Policy
BY DEF Inherit, Policy

LEMMA UnsetType == Unset \in Policy
BY GateAssumption DEF Unset, Policy

LEMMA DefaultType ==
    DefaultOptions \in Policy /\ DefaultOptions.mode # "unset" /\ DefaultOptions.fail_severity # 0
BY DEF DefaultOptions, Policy, Severity

LEMMA CommandType ==
    ASSUME cmd \in Commands
    PROVE /\ cmd \in Command
          /\ cmd.cli \in Policy
          /\ cmd.outs \in Seq(Output)
          /\ cmd.kind # "scan" => cmd.from \in Paths
          /\ \A k, l \in DOMAIN cmd.outs :
                cmd.outs[k].path = cmd.outs[l].path => cmd.outs[k] = cmd.outs[l]
BY GateAssumption DEF Command

LEMMA ProjectPolicyType ==
    ASSUME config \in Configs
    PROVE ProjectPolicy \in Policy
BY GateAssumption, UnsetType DEF ProjectPolicy, Config

\* The options of a command are complete.
LEMMA BuildType ==
    ASSUME cmd \in Commands, config \in Configs
    PROVE /\ BuildOptions \in Policy
          /\ BuildOptions.mode # "unset"
          /\ BuildOptions.fail_severity # 0
<1> DEFINE low == Inherit(DefaultOptions, ProjectPolicy)
<1>1. cmd.cli \in Policy /\ ProjectPolicy \in Policy
    BY CommandType, ProjectPolicyType
<1>2. low \in Policy
    BY <1>1, InheritType, DefaultType
<1>3. low.mode # "unset" /\ low.fail_severity # 0
    BY DefaultType DEF Inherit
<1>4. BuildOptions = Inherit(low, cmd.cli)
    BY DEF BuildOptions
<1> HIDE DEF low
<1>5. BuildOptions \in Policy
    BY <1>1, <1>2, <1>4, InheritType
<1>6. BuildOptions.mode # "unset" /\ BuildOptions.fail_severity # 0
    BY <1>3, <1>4 DEF Inherit
<1>7. QED BY <1>5, <1>6

\* What the options say of a field is what the command line says, or else the
\* file, or else the default.
LEMMA BuildSays ==
    ASSUME cmd \in Commands, config \in Configs
    PROVE /\ BuildOptions.mode = "enforce" <=> Says("mode") = "enforce"
          /\ BuildOptions.fail_severity =
                IF Says("fail_severity") = 0 THEN 4 ELSE Says("fail_severity")
          /\ BuildOptions.fail_categories = Says("fail_categories")
          /\ BuildOptions.include = Says("include")
          /\ BuildOptions.exclude = Says("exclude")
          /\ BuildOptions.baseline = Says("baseline")
<1> DEFINE file == ProjectPolicy
           line == cmd.cli
<1>1. /\ DefaultOptions.mode = "advisory" /\ DefaultOptions.fail_severity = 4
      /\ DefaultOptions.fail_categories = {} /\ DefaultOptions.include = {}
      /\ DefaultOptions.exclude = {} /\ DefaultOptions.baseline = NoPath
    BY DEF DefaultOptions
<1>2. /\ Unset.mode = "unset" /\ Unset.fail_severity = 0
      /\ Unset.fail_categories = {} /\ Unset.include = {}
      /\ Unset.exclude = {} /\ Unset.baseline = NoPath
    BY DEF Unset
<1>3. \A f : Says(f) = IF line[f] # Unset[f] THEN line[f] ELSE file[f]
    BY DEF Says, ProjectPolicy
<1>4. BuildOptions = Inherit(Inherit(DefaultOptions, file), line)
    BY DEF BuildOptions
<1> HIDE DEF file, line
<1>5. BuildOptions.mode = "enforce" <=> Says("mode") = "enforce"
    BY <1>1, <1>2, <1>3, <1>4 DEF Inherit
<1>6. BuildOptions.fail_severity = IF Says("fail_severity") = 0 THEN 4 ELSE Says("fail_severity")
    BY <1>1, <1>2, <1>3, <1>4 DEF Inherit
<1>7. BuildOptions.fail_categories = Says("fail_categories")
    BY <1>1, <1>2, <1>3, <1>4 DEF Inherit
<1>8. BuildOptions.include = Says("include") /\ BuildOptions.exclude = Says("exclude")
    BY <1>1, <1>2, <1>3, <1>4 DEF Inherit
<1>9. BuildOptions.baseline = Says("baseline")
    BY <1>1, <1>2, <1>3, <1>4 DEF Inherit
<1>10. QED BY <1>5, <1>6, <1>7, <1>8, <1>9
-----------------------------------------------------------------------------
\* Outputs are written to paths.
LEMMA OutputPath ==
    ASSUME NEW outs \in Seq(Output), NEW k \in DOMAIN outs
    PROVE outs[k].path \in Paths
<1>1. outs[k] \in Output
    OBVIOUS
<1>2. QED BY <1>1 DEF Output

\* What a command writes has the type of a file.
LEMMA RenderedType ==
    ASSUME report \subseteq Ids, NEW out \in Output
    PROVE Rendered(out) \in Content
BY DEF Rendered, Content

\* Initially.
LEMMA GateInit == Init => GateInv
<1> SUFFICES ASSUME Init PROVE GateInv
    OBVIOUS
<1> USE DEF Init
<1>1. TypeOK
    <2>1. disk \in [Paths -> Content]
        BY DEF NoFile, Content
    <2>2. policy \in Policy /\ policy.mode # "unset" /\ policy.fail_severity # 0
        BY DefaultType
    <2>3. todo \in Seq(Output)
        OBVIOUS
    <2>4. QED BY <2>1, <2>2, <2>3 DEF TypeOK
<1>2. RightKind /\ PolicyBuilt /\ OnlyOutputsTouched /\ WrittenOrTodo /\ AllDone /\ ReportRead
    BY DEF RightKind, PolicyBuilt, OnlyOutputsTouched, WrittenOrTodo, AllDone, ReportRead,
           Writing, Settled
<1>3. VerdictFollowsPolicy /\ OnlyWholeInputs
    BY DEF VerdictFollowsPolicy, OnlyWholeInputs, Judged
<1>4. QED BY <1>1, <1>2, <1>3 DEF GateInv

\* A command that has not ended, or not with a verdict.
LEMMA GateUnjudged ==
    ASSUME exit' \notin {"ok", "blocked"}
    PROVE (VerdictFollowsPolicy /\ OnlyWholeInputs /\ AllDone)'
BY DEF VerdictFollowsPolicy, OnlyWholeInputs, AllDone, Judged, Settled

\* A command that ends without a verdict.
LEMMA GateFails ==
    ASSUME GateInv, pc \notin {"idle", "done"}, NEW ending \in {"error", "killed"}, Exit(ending),
           UNCHANGED <<tree, config, disk, cmd, policy, report, todo, start>>
    PROVE GateInv'
<1> USE DEF GateInv, Exit
<1>1. TypeOK'
    BY DEF TypeOK
<1>2. RightKind' /\ PolicyBuilt' /\ WrittenOrTodo' /\ ReportRead'
    BY DEF RightKind, PolicyBuilt, WrittenOrTodo, ReportRead, Writing, Settled
<1>3. OnlyOutputsTouched'
    BY DEF OnlyOutputsTouched, Outputs
<1>4. QED BY <1>1, <1>2, <1>3, GateUnjudged

\* The steps up to the report.
LEMMA GateStart == ASSUME GateInv, Start PROVE GateInv'
<1> USE DEF GateInv
<1>1. PICK c \in Commands : /\ cmd' = c
                            /\ pc' = IF c.kind = "baseline" THEN "read" ELSE "config"
    BY DEF Start
<1> USE DEF Start
<1>2. TypeOK' /\ exit = "none"
    BY <1>1 DEF TypeOK
<1>3. c \in Command
    BY <1>1, GateAssumption
<1>4. RightKind' /\ PolicyBuilt' /\ WrittenOrTodo' /\ ReportRead'
    BY <1>1, <1>2 DEF RightKind, PolicyBuilt, WrittenOrTodo, ReportRead, Writing, Settled
<1>5. OnlyOutputsTouched'
    BY <1>1 DEF OnlyOutputsTouched
<1>6. QED BY <1>2, <1>4, <1>5, GateUnjudged

LEMMA GateLoadConfig == ASSUME GateInv, LoadConfig PROVE GateInv'
<1> USE DEF GateInv, LoadConfig
<1>1. exit = "none" /\ cmd \in Commands /\ config \in Configs
    BY DEF TypeOK
<1>2. TypeOK'
    BY <1>1, BuildType DEF TypeOK
<1>3. BuildOptions' = BuildOptions
    BY DEF BuildOptions, ProjectPolicy
<1>4. PolicyBuilt'
    BY <1>3 DEF PolicyBuilt
<1>5. RightKind' /\ WrittenOrTodo' /\ ReportRead'
    BY <1>1 DEF RightKind, WrittenOrTodo, ReportRead, Writing, Settled
<1>6. OnlyOutputsTouched'
    BY DEF OnlyOutputsTouched
<1>7. QED BY <1>1, <1>2, <1>4, <1>5, <1>6, GateUnjudged

\* The report is in memory, the outputs are all to be written.
LEMMA GateReport ==
    ASSUME GateInv, pc \in {"scan", "read"}, report' \subseteq Ids, todo' = cmd.outs, pc' = "write",
           UNCHANGED <<tree, config, disk, cmd, policy, exit, start>>,
           cmd.kind = "evaluate" => disk[cmd.from].kind = "report" /\ report' = disk[cmd.from].ids
    PROVE GateInv'
<1> USE DEF GateInv
<1>1. exit = "none" /\ cmd \in Commands
    BY DEF TypeOK
<1>2. TypeOK'
    BY <1>1, CommandType DEF TypeOK
<1>3. BuildOptions' = BuildOptions
    BY DEF BuildOptions, ProjectPolicy
<1>4. RightKind' /\ PolicyBuilt'
    BY <1>1, <1>3 DEF RightKind, PolicyBuilt
<1>5. WrittenOrTodo'
    BY DEF WrittenOrTodo
<1>6. OnlyOutputsTouched' /\ ReportRead'
    BY DEF OnlyOutputsTouched, ReportRead
<1>7. QED BY <1>1, <1>2, <1>4, <1>5, <1>6, GateUnjudged

LEMMA GateScanTree == ASSUME GateInv, ScanTree PROVE GateInv'
<1>1. tree \cap cmd.view \subseteq Ids /\ cmd.kind # "evaluate"
    BY DEF GateInv, TypeOK, RightKind, ScanTree
<1>2. QED BY <1>1, GateReport DEF ScanTree

LEMMA GateReadReport == ASSUME GateInv, ReadReport PROVE GateInv'
<1>1. cmd.from \in Paths
    BY CommandType DEF GateInv, TypeOK, RightKind, ReadReport
<1>2. disk[cmd.from].ids \subseteq Ids
    BY <1>1 DEF GateInv, TypeOK, Content
<1>3. QED BY <1>2, GateReport DEF ReadReport

-----------------------------------------------------------------------------
\* The next output is one of the command's, and no other output is written to
\* its path.
LEMMA NextOutput ==
    ASSUME GateInv, Writing, todo # <<>>
    PROVE /\ Head(todo) = todo[1] /\ 1 \in DOMAIN todo
          /\ Head(todo) \in Output
          /\ Head(todo).path \in Outputs
          /\ \A k \in DOMAIN cmd.outs :
                cmd.outs[k].path = Head(todo).path => cmd.outs[k] = Head(todo)
<1>1. todo \in Seq(Output) /\ cmd \in Commands
    BY DEF GateInv, TypeOK
<1>2. Head(todo) = todo[1] /\ 1 \in DOMAIN todo /\ Head(todo) \in Output
    BY <1>1
<1>3. PICK h \in DOMAIN cmd.outs : todo[1] = cmd.outs[h]
    BY <1>2 DEF GateInv, WrittenOrTodo
<1>4. \A k \in DOMAIN cmd.outs : cmd.outs[k].path = cmd.outs[h].path => cmd.outs[k] = cmd.outs[h]
    BY <1>1, CommandType
<1>5. QED BY <1>2, <1>3, <1>4 DEF Outputs

LEMMA GateOpenOutput == ASSUME GateInv, OpenOutput PROVE GateInv'
<1> DEFINE out == Head(todo)
<1> USE DEF GateInv, OpenOutput
<1>1. exit = "none" /\ Writing
    BY DEF TypeOK, Writing
<1>2. /\ out = todo[1] /\ 1 \in DOMAIN todo /\ out.path \in Outputs
      /\ \A k \in DOMAIN cmd.outs : cmd.outs[k].path = out.path => cmd.outs[k] = out
    BY <1>1, NextOutput
<1>3. out.path \in Paths
    BY <1>1, NextOutput DEF Output
<1>4. /\ \A p \in Paths : p # out.path => disk'[p] = disk[p]
      /\ disk' \in [Paths -> Content]
    BY <1>3 DEF TypeOK, Torn, Content
<1>5. TypeOK'
    BY <1>1, <1>4 DEF TypeOK
<1>6. BuildOptions' = BuildOptions
    BY DEF BuildOptions, ProjectPolicy
<1>7. RightKind' /\ PolicyBuilt' /\ ReportRead'
    BY <1>1, <1>6 DEF RightKind, PolicyBuilt, ReportRead, Writing
<1>8. OnlyOutputsTouched'
    BY <1>2, <1>4 DEF OnlyOutputsTouched, Outputs
<1>9. cmd \in Commands
    BY DEF TypeOK
<1>10. WrittenOrTodo'
    <2>1. ASSUME NEW k \in DOMAIN cmd.outs, ~\E j \in DOMAIN todo : todo[j] = cmd.outs[k]
          PROVE disk'[cmd.outs[k].path] = Rendered(cmd.outs[k])
        <3>1. cmd.outs[k].path \in Paths
            BY <1>9, CommandType, OutputPath
        <3>2. cmd.outs[k].path # out.path
            BY <1>2, <2>1
        <3>3. disk[cmd.outs[k].path] = Rendered(cmd.outs[k])
            BY <1>1, <2>1 DEF WrittenOrTodo
        <3>4. QED BY <1>4, <3>1, <3>2, <3>3
    <2>2. \A k \in DOMAIN cmd.outs : Rendered(cmd.outs[k])' = Rendered(cmd.outs[k])
        BY DEF Rendered
    <2>3. QED BY <1>1, <2>1, <2>2 DEF WrittenOrTodo
<1>11. QED BY <1>1, <1>5, <1>7, <1>8, <1>10, GateUnjudged

LEMMA GateFillOutput == ASSUME GateInv, FillOutput PROVE GateInv'
<1> DEFINE out == Head(todo)
<1> USE DEF GateInv, FillOutput
<1>1. exit = "none" /\ Writing /\ todo # <<>> /\ todo \in Seq(Output) /\ cmd \in Commands
    BY DEF TypeOK, Writing, RightKind
<1>2. /\ out = todo[1] /\ 1 \in DOMAIN todo /\ out.path \in Outputs /\ out \in Output
      /\ \A k \in DOMAIN cmd.outs : cmd.outs[k].path = out.path => cmd.outs[k] = out
    BY <1>1, NextOutput
<1>3. out.path \in Paths
    BY <1>2 DEF Output
<1>4. /\ \A p \in Paths : p # out.path => disk'[p] = disk[p]
      /\ disk'[out.path] = Rendered(out)
      /\ disk' \in [Paths -> Content]
    BY <1>2, <1>3, RenderedType DEF TypeOK
<1>5. /\ todo' \in Seq(Output)
      /\ \A j \in DOMAIN todo' : j + 1 \in DOMAIN todo /\ todo'[j] = todo[j + 1]
      /\ \A j \in DOMAIN todo : j = 1 \/ (j - 1 \in DOMAIN todo' /\ todo'[j - 1] = todo[j])
    BY <1>1
<1>6. TypeOK'
    BY <1>1, <1>4, <1>5 DEF TypeOK
<1>7. BuildOptions' = BuildOptions
    BY DEF BuildOptions, ProjectPolicy
<1>8. RightKind' /\ PolicyBuilt' /\ ReportRead'
    BY <1>1, <1>7 DEF RightKind, PolicyBuilt, ReportRead, Writing
<1>9. OnlyOutputsTouched'
    BY <1>2, <1>4 DEF OnlyOutputsTouched, Outputs
<1>10. WrittenOrTodo'
    <2>1. \A j \in DOMAIN todo' : \E k \in DOMAIN cmd.outs : todo'[j] = cmd.outs[k]
        BY <1>1, <1>5 DEF WrittenOrTodo
    <2>2. ASSUME NEW k \in DOMAIN cmd.outs
          PROVE \/ disk'[cmd.outs[k].path] = Rendered(cmd.outs[k])
                \/ \E j \in DOMAIN todo' : todo'[j] = cmd.outs[k]
        <3>1. cmd.outs[k].path \in Paths
            BY <1>1, CommandType, OutputPath
        <3>2. CASE cmd.outs[k].path = out.path
            BY <1>2, <1>4, <3>2
        <3>3. CASE /\ cmd.outs[k].path # out.path
                   /\ disk[cmd.outs[k].path] = Rendered(cmd.outs[k])
            BY <1>4, <3>1, <3>3
        <3>4. CASE /\ cmd.outs[k].path # out.path
                   /\ \E j \in DOMAIN todo : todo[j] = cmd.outs[k]
            <4>1. PICK j \in DOMAIN todo : todo[j] = cmd.outs[k]
                BY <3>4
            <4>2. j # 1
                BY <1>2, <3>4, <4>1
            <4>3. j - 1 \in DOMAIN todo' /\ todo'[j - 1] = todo[j]
                BY <1>5, <4>1, <4>2
            <4>4. QED BY <4>1, <4>3
        <3>5. QED BY <1>1, <3>2, <3>3, <3>4, SMTT(30) DEF WrittenOrTodo
    <2>3. \A k \in DOMAIN cmd.outs : Rendered(cmd.outs[k])' = Rendered(cmd.outs[k])
        BY DEF Rendered
    <2>4. QED BY <2>1, <2>2, <2>3 DEF WrittenOrTodo
<1>11. QED BY <1>1, <1>6, <1>8, <1>9, <1>10, GateUnjudged

-----------------------------------------------------------------------------
\* A command that ends with nothing left to write, whatever its verdict: what
\* remains to be shown of the verdict is in the hypotheses.
LEMMA GateEnds ==
    ASSUME GateInv, pc = "write", AllWritten, NEW ending \in {"ok", "blocked"}, Exit(ending),
           UNCHANGED <<tree, config, disk, cmd, policy, report, todo, start>>,
           VerdictFollowsPolicy', OnlyWholeInputs'
    PROVE GateInv'
<1> USE DEF GateInv, Exit
<1>1. TypeOK' /\ Writing
    BY DEF TypeOK, Writing
<1>2. BuildOptions' = BuildOptions
    BY DEF BuildOptions, ProjectPolicy
<1>3. RightKind' /\ PolicyBuilt' /\ ReportRead'
    BY <1>1, <1>2 DEF RightKind, PolicyBuilt, ReportRead
<1>4. OnlyOutputsTouched' /\ AllDone'
    BY DEF OnlyOutputsTouched, AllDone, AllWritten, Outputs
<1>5. WrittenOrTodo'
    BY <1>1 DEF WrittenOrTodo, Rendered
<1>6. QED BY <1>1, <1>3, <1>4, <1>5

LEMMA GateBaselineCreated == ASSUME GateInv, BaselineCreated PROVE GateInv'
<1>1. VerdictFollowsPolicy' /\ OnlyWholeInputs'
    BY DEF BaselineCreated, VerdictFollowsPolicy, OnlyWholeInputs, Judged
<1>2. QED BY <1>1, GateEnds DEF BaselineCreated

\* The verdict of the code, in the words of VerdictFollowsPolicy.
LEMMA GateVerdict ==
    ASSUME GateInv, AtVerdict, NEW ids, Exit(Verdict(ids)),
           UNCHANGED <<tree, config, disk, cmd, policy, report, todo, start>>,
           Says("baseline") \notin Outputs => ids = Accepted,
           Says("baseline") \notin Outputs \cup {NoPath} =>
              HasFindingIds(start[Says("baseline")])
    PROVE GateInv'
<1> USE DEF GateInv, AtVerdict
<1>1. Verdict(ids) \in {"ok", "blocked"} /\ Writing
    BY DEF Verdict, Writing
<1>2. /\ cmd \in Commands /\ config \in Configs /\ policy = BuildOptions
      /\ report \subseteq Ids /\ SeverityOf \in [Ids -> Severity]
    BY <1>1, GateAssumption DEF TypeOK, PolicyBuilt
<1>3. /\ \A f : Says(f)' = Says(f)
      /\ Outputs' = Outputs /\ Accepted' = Accepted
      /\ \A id : Serious(id)' <=> Serious(id)
    BY DEF Says, Outputs, Accepted, Serious
<1>4. /\ policy.mode = "enforce" <=> Says("mode") = "enforce"
      /\ policy.fail_severity = IF Says("fail_severity") = 0 THEN 4 ELSE Says("fail_severity")
      /\ policy.fail_categories = Says("fail_categories")
      /\ policy.include = Says("include") /\ policy.exclude = Says("exclude")
    BY <1>2, BuildSays
<1>5. \A id \in Ids : Blocks(id, ids) <=>
            /\ id \notin Says("exclude")
            /\ id \in Says("include") \/ (Serious(id) /\ id \notin ids)
    BY <1>4 DEF Blocks, Serious
<1>6. Says("baseline") \notin Outputs =>
        (Verdict(ids) = "blocked" <=>
            /\ Says("mode") = "enforce"
            /\ \E id \in report \ Says("exclude") :
                id \in Says("include") \/ (Serious(id) /\ id \notin Accepted))
    BY <1>2, <1>4, <1>5 DEF Verdict
<1>7. VerdictFollowsPolicy'
    BY <1>3, <1>6 DEF VerdictFollowsPolicy, Judged, Exit
<1>8. OnlyWholeInputs'
    BY <1>1, <1>3 DEF OnlyWholeInputs, Judged, ReportRead, HasFindingIds
<1>9. QED BY <1>1, <1>7, <1>8, GateEnds

LEMMA BaselineInForce ==
    ASSUME GateInv, AtVerdict
    PROVE policy.baseline = Says("baseline") /\ policy.baseline \in Paths \cup {NoPath}
<1>1. cmd \in Commands /\ config \in Configs /\ policy = BuildOptions /\ policy \in Policy
    BY DEF GateInv, AtVerdict, TypeOK, PolicyBuilt, Writing
<1>2. QED BY <1>1, BuildSays DEF Policy

LEMMA GateEvaluateWithout == ASSUME GateInv, EvaluateWithout PROVE GateInv'
<1>1. Says("baseline") = NoPath
    BY BaselineInForce DEF EvaluateWithout
<1>2. QED BY <1>1, GateVerdict DEF EvaluateWithout, Accepted

LEMMA GateEvaluateAgainst == ASSUME GateInv, EvaluateAgainst PROVE GateInv'
<1>1. /\ policy.baseline = Says("baseline") /\ policy.baseline # NoPath
      /\ policy.baseline \in Paths
    BY BaselineInForce DEF EvaluateAgainst
<1>2. Says("baseline") \notin Outputs => disk[policy.baseline] = start[policy.baseline]
    BY <1>1 DEF GateInv, OnlyOutputsTouched, EvaluateAgainst, AtVerdict
<1>3. QED BY <1>1, <1>2, GateVerdict DEF EvaluateAgainst, Accepted

\* The next command, and what happens around the commands.
LEMMA GateReturn == ASSUME GateInv, Return PROVE GateInv'
<1> USE DEF GateInv, Return
<1>1. TypeOK'
    BY DefaultType DEF TypeOK
<1>2. QED BY <1>1 DEF RightKind, PolicyBuilt, OnlyOutputsTouched, WrittenOrTodo, AllDone,
        ReportRead, Writing, Settled, VerdictFollowsPolicy, OnlyWholeInputs, Judged

LEMMA GateEditTree == ASSUME GateInv, EditTree \/ UNCHANGED vars PROVE GateInv'
<1> USE DEF GateInv, EditTree, vars
<1>1. TypeOK' /\ BuildOptions' = BuildOptions
    BY DEF TypeOK, BuildOptions, ProjectPolicy
<1>2. /\ RightKind' /\ PolicyBuilt' /\ OnlyOutputsTouched' /\ WrittenOrTodo' /\ AllDone'
      /\ ReportRead'
    BY <1>1 DEF RightKind, PolicyBuilt, OnlyOutputsTouched, WrittenOrTodo, AllDone,
        ReportRead, Writing, Settled, Outputs, Rendered
<1>3. VerdictFollowsPolicy' /\ OnlyWholeInputs'
    BY DEF VerdictFollowsPolicy, OnlyWholeInputs, Judged, Says, Outputs, Accepted, Serious
<1>4. QED BY <1>1, <1>2, <1>3

LEMMA GateEditFiles == ASSUME GateInv, EditConfig \/ Remove PROVE GateInv'
<1> USE DEF GateInv, EditConfig, Remove
<1>1. pc = "idle" /\ exit = "none" /\ ~Writing
    BY DEF TypeOK, Writing, Settled
<1>2. NoFile \in Content
    BY DEF NoFile, Content
<1>3. disk' \in [Paths -> Content]
    BY <1>2 DEF TypeOK
<1>4. TypeOK'
    BY <1>1, <1>3 DEF TypeOK
<1>5. QED BY <1>1, <1>4 DEF RightKind, PolicyBuilt, OnlyOutputsTouched, WrittenOrTodo, AllDone,
        ReportRead, Writing, Settled, VerdictFollowsPolicy, OnlyWholeInputs, Judged

-----------------------------------------------------------------------------
\* Every step keeps the invariant.
LEMMA GateStep == ASSUME GateInv, [Next]_vars PROVE GateInv'
<1>1. CASE ConfigInvalid
    BY <1>1, GateFails DEF ConfigInvalid
<1>2. CASE ScanFails
    BY <1>2, GateFails DEF ScanFails
<1>3. CASE ReportUnreadable
    BY <1>3, GateFails DEF ReportUnreadable
<1>4. CASE WriteFails
    BY <1>4, GateFails DEF WriteFails
<1>5. CASE BaselineUnreadable
    BY <1>5, GateFails DEF BaselineUnreadable, AtVerdict
<1>6. CASE Kill
    BY <1>6, GateFails DEF Kill
<1>7. QED BY <1>1, <1>2, <1>3, <1>4, <1>5, <1>6, GateStart, GateLoadConfig,
        GateScanTree, GateReadReport, GateOpenOutput, GateFillOutput, GateBaselineCreated,
        GateEvaluateWithout, GateEvaluateAgainst, GateReturn, GateEditTree, GateEditFiles
        DEF Next

\* The invariant holds always.
THEOREM GateInvariance == Spec => []GateInv
BY GateStep, GateInit, PTL DEF Spec

\* The type invariant: the policy a command judges by is always complete.
THEOREM GateTypeCorrectness == Spec => []TypeOK
BY GateInvariance, PTL DEF GateInv

\* The exit status follows the policy and the baseline as it was, for all
\* command lines that do not write over their baseline.
THEOREM GateFollowsPolicy == Spec => []VerdictFollowsPolicy
BY GateInvariance, PTL DEF GateInv

\* Torn files are never judged.
THEOREM GateReadsWhole == Spec => []OnlyWholeInputs
BY GateInvariance, PTL DEF GateInv

\* When a command has judged, its reports are all written.
LEMMA GateReports == GateInv => ReportsBeforeVerdict
BY DEF GateInv, WrittenOrTodo, AllDone, ReportsBeforeVerdict, Writing, Settled

\* A verdict comes after the reports, all of them whole.
THEOREM GateReportsFirst == Spec => []ReportsBeforeVerdict
BY GateInvariance, GateReports, PTL

-----------------------------------------------------------------------------
(* The script around it.                                                    *)
\* The places between a scan that worked and the end of the script.
AfterScan == {"prefix", "replace", "summary", "publish", "judge", "judging"}
BeforeScan == {"inputs", "prepare"}
Ending == {"exiting", "ended"}
Places == {"idle", "scan", "scanning"} \cup BeforeScan \cup AfterScan \cup Ending

\* Where the script is, and what runs then.
ScriptWhere ==
    /\ use \in Uses /\ at \in Places
    /\ pc # "idle" <=> at \in {"scanning", "judging"}
    /\ json_path \in {NoPath, JsonPath}
    /\ at \in BeforeScan => json_path = NoPath
    /\ at \in {"scan", "scanning"} \cup AfterScan => json_path = JsonPath

\* The command that runs is the one the inputs ask for.
RunsItsCommand ==
    /\ at = "scanning" => cmd = ScanCommand(use)
    /\ at = "judging" =>
        cmd = EvaluateCommand(use) /\ Enforced /\ EffectiveSeverity(use) # 0 /\ disk = start

\* The JSON report is that of this use from its scan to its verdict.
JsonOfThisUse ==
    at \in AfterScan => disk[JsonPath].kind = "report" /\ disk[JsonPath].ids = scanned

\* StatusFollowsInputs, from the moment the status is known.
StatusRight ==
    (at \in Ending /\ status \in {"ok", "blocked"} /\ use.baseline \notin ReportPaths) =>
        (status = "blocked" <=>
            /\ Enforced
            /\ \E id \in scanned \ use.exclude :
                \/ id \in use.include
                \/ /\ Counts(id)
                   /\ use.baseline # NoPath => id \notin disk[use.baseline].ids)

StatusInv == GateInv /\ ScriptWhere /\ RunsItsCommand /\ JsonOfThisUse /\ StatusRight

-----------------------------------------------------------------------------
\* What the inputs become.
LEMMA UseType ==
    ASSUME NEW u \in Uses
    PROVE /\ u \in Use
          /\ ScanCommand(u) \in Commands
          /\ EffectiveSeverity(u) # 0 => EvaluateCommand(u) \in Commands
          /\ u.baseline \in Paths \cup {NoPath}
<1>1. u \in Use
    BY ActionAssumption
<1>2. ScanCommand(u) \in Commands /\ (EffectiveSeverity(u) # 0 => EvaluateCommand(u) \in Commands)
    BY ActionAssumption
<1>3. QED BY <1>1, <1>2 DEF Use

\* A command line of the script ignores the file of the repository.
LEMMA EvaluateSays ==
    ASSUME cmd = EvaluateCommand(use), EffectiveSeverity(use) # 0
    PROVE /\ Says("mode") = "enforce"
          /\ Says("fail_severity") = EffectiveSeverity(use)
          /\ Says("fail_categories") = use.fail_categories
          /\ Says("include") = use.include
          /\ Says("exclude") = use.exclude
          /\ Says("baseline") = use.baseline
          /\ Outputs = {} /\ cmd.kind = "evaluate" /\ cmd.from = JsonPath
<1>1. /\ cmd.kind = "evaluate" /\ cmd.from = JsonPath /\ cmd.outs = <<>>
      /\ cmd.use_policy_config = FALSE
      /\ cmd.cli = PolicyArgs(use, "enforce", EffectiveSeverity(use))
    BY DEF EvaluateCommand
<1>2. Outputs = {}
    BY <1>1 DEF Outputs
<1>3. \A f : Says(f) = IF cmd.cli[f] # Unset[f] THEN cmd.cli[f] ELSE Unset[f]
    BY <1>1 DEF Says
<1>4. QED BY <1>1, <1>2, <1>3 DEF PolicyArgs, Unset

\* Members of two sequences are members of the two put together.
LEMMA ConcatHolds ==
    ASSUME NEW S, NEW s \in Seq(S), NEW t \in Seq(S)
    PROVE /\ s \o t \in Seq(S)
          /\ \A k \in DOMAIN s : k \in DOMAIN (s \o t) /\ (s \o t)[k] = s[k]
          /\ \A k \in DOMAIN t :
                Len(s) + k \in DOMAIN (s \o t) /\ (s \o t)[Len(s) + k] = t[k]
OBVIOUS

\* The scan writes what was asked for, and always the JSON report.
LEMMA ScanWrites ==
    ASSUME NEW u \in Use, NEW f \in u.formats \cup {"json"}
    PROVE \E k \in DOMAIN ScanCommand(u).outs : ScanCommand(u).outs[k] = OutputOf(f)
<1> DEFINE S == {OutputOf("markdown"), OutputOf("sarif"), OutputOf("json")}
           Chosen(format) ==
            IF format \in ScanFormats(u.formats) THEN <<OutputOf(format)>> ELSE <<>>
           md == Chosen("markdown")
           sarif == Chosen("sarif")
           json == Chosen("json")
           both == md \o sarif
<1>1. ScanCommand(u).outs = both \o json
    BY DEF ScanCommand, ScanOutputs
<1>2. f \in ScanFormats(u.formats) /\ f \in {"markdown", "sarif", "json"}
    BY DEF ScanFormats, Use
<1>3. /\ f = "markdown" => 1 \in DOMAIN md /\ md[1] = OutputOf(f)
      /\ f = "sarif" => 1 \in DOMAIN sarif /\ sarif[1] = OutputOf(f)
      /\ f = "json" => 1 \in DOMAIN json /\ json[1] = OutputOf(f)
    BY <1>2
<1>4. \A o \in S : <<o>> \in Seq(S)
    OBVIOUS
<1>5. md \in Seq(S) /\ sarif \in Seq(S) /\ json \in Seq(S)
    <2>1. OutputOf("markdown") \in S /\ OutputOf("sarif") \in S /\ OutputOf("json") \in S
        OBVIOUS
    <2>2. <<>> \in Seq(S)
        OBVIOUS
    <2>3. QED BY <1>4, <2>1, <2>2
<1>6. both \in Seq(S)
    BY <1>5, ConcatHolds
<1> HIDE DEF md, sarif, json, both, S
<1>7. CASE f = "json"
    <2>1. Len(both) + 1 \in DOMAIN (both \o json) /\ (both \o json)[Len(both) + 1] = OutputOf(f)
        BY <1>3, <1>5, <1>6, <1>7, ConcatHolds
    <2>2. QED BY <1>1, <2>1
<1>8. CASE f = "sarif"
    <2>1. Len(md) + 1 \in DOMAIN both /\ both[Len(md) + 1] = OutputOf(f)
        BY <1>3, <1>5, <1>8, ConcatHolds DEF both
    <2>2. /\ Len(md) + 1 \in DOMAIN (both \o json)
          /\ (both \o json)[Len(md) + 1] = OutputOf(f)
        BY <1>5, <1>6, <2>1, ConcatHolds
    <2>3. QED BY <1>1, <2>2
<1>9. CASE f = "markdown"
    <2>1. 1 \in DOMAIN both /\ both[1] = OutputOf(f)
        BY <1>3, <1>5, <1>9, ConcatHolds DEF both
    <2>2. 1 \in DOMAIN (both \o json) /\ (both \o json)[1] = OutputOf(f)
        BY <1>5, <1>6, <2>1, ConcatHolds
    <2>3. QED BY <1>1, <2>2
<1>10. QED BY <1>2, <1>7, <1>8, <1>9

-----------------------------------------------------------------------------
\* The script writes files while no command runs.
LEMMA ScriptWrites ==
    ASSUME GateInv, pc = "idle", disk' \in [Paths -> Content],
           UNCHANGED <<tree, config, pc, cmd, policy, report, todo, exit, start>>
    PROVE GateInv'
<1> USE DEF GateInv
<1>1. exit = "none" /\ ~Writing
    BY DEF TypeOK, Writing, Settled
<1>2. TypeOK'
    BY DEF TypeOK
<1>3. QED BY <1>1, <1>2 DEF RightKind, PolicyBuilt, OnlyOutputsTouched, WrittenOrTodo, AllDone,
        ReportRead, Writing, Settled, VerdictFollowsPolicy, OnlyWholeInputs, Judged

\* A command that runs stays the same command.
LEMMA CommandStays ==
    ASSUME GateInv, pc \notin {"idle", "done"}, Next
    PROVE cmd' = cmd /\ start' = start /\ pc' # "idle"
BY DEF Next, Start, LoadConfig, ConfigInvalid, ScanTree, ScanFails, ReadReport, ReportUnreadable,
    OpenOutput, FillOutput, WriteFails, BaselineCreated, EvaluateWithout, EvaluateAgainst,
    BaselineUnreadable, Kill, Return, EditTree, EditConfig, Remove, Exit

\* Two disks that agree everywhere.
LEMMA SameDisk ==
    ASSUME TypeOK, \A p \in Paths : disk[p] = start[p]
    PROVE disk = start
BY DEF TypeOK

\* The paths of the reports.
LEMMA ReportPathsType == JsonPath \in Paths /\ NoPath \notin Paths /\ JsonPath # NoPath
BY ActionAssumption, GateAssumption DEF ReportPaths

-----------------------------------------------------------------------------
LEMMA StatusInit == ActionInit => StatusInv
<1> SUFFICES ASSUME ActionInit PROVE StatusInv
    OBVIOUS
<1> USE DEF ActionInit
<1>1. disk \in [Paths -> Content] /\ start = disk
    BY ActionAssumption DEF NoFile, Content
<1>2. TypeOK
    BY <1>1, DefaultType DEF TypeOK
<1>3. GateInv
    BY <1>2 DEF GateInv, RightKind, PolicyBuilt, OnlyOutputsTouched, WrittenOrTodo, AllDone,
        ReportRead, Writing, Settled, VerdictFollowsPolicy, OnlyWholeInputs, Judged
<1>4. ScriptWhere /\ RunsItsCommand /\ JsonOfThisUse /\ StatusRight
    BY DEF ScriptWhere, RunsItsCommand, JsonOfThisUse, StatusRight, Places, BeforeScan,
        AfterScan, Ending
<1>5. QED BY <1>3, <1>4 DEF StatusInv

\* A step of the script that writes nothing and ends without a verdict, if it ends.
LEMMA ScriptGoesOn ==
    ASSUME StatusInv, UNCHANGED <<vars, use, scanned>>, pc = "idle",
           at' \in Places \ {"scanning", "judging"},
           at' \in AfterScan => at \in AfterScan,
           at' \in Ending => status' \notin {"ok", "blocked"},
           json_path' \in {NoPath, JsonPath},
           at' \in BeforeScan => json_path' = NoPath,
           at' \in {"scan"} \cup AfterScan => json_path' = JsonPath
    PROVE StatusInv'
<1> USE DEF StatusInv
<1>1. GateInv'
    BY GateStep DEF vars
<1>2. ScriptWhere'
    BY DEF ScriptWhere, vars
<1>3. RunsItsCommand' /\ JsonOfThisUse' /\ StatusRight'
    BY DEF RunsItsCommand, JsonOfThisUse, StatusRight, vars
<1>4. QED BY <1>1, <1>2, <1>3

LEMMA StepsWithoutVerdict ==
    ASSUME StatusInv,
           \/ RejectInputs \/ MakeReportsDir \/ ResolveFails \/ RejectFormatsOrBaseline \/ Prepare
           \/ NothingToPrefix \/ PrefixFails \/ Publish \/ SeverityRejected \/ KillScript
           \/ NextStep
    PROVE StatusInv'
<1> USE DEF StatusInv, ScriptWhere, Places, BeforeScan, AfterScan, Ending, Goto, Stop
<1>1. UNCHANGED <<vars, use, scanned>> /\ pc = "idle"
    BY DEF RejectInputs, MakeReportsDir, ResolveFails, RejectFormatsOrBaseline, Prepare,
        NothingToPrefix, PrefixFails, Publish, SeverityRejected, KillScript, NextStep
<1>2. /\ at' \in Places \ {"scanning", "judging"}
      /\ at' \in AfterScan => at \in AfterScan
      /\ at' \in Ending => status' \notin {"ok", "blocked"}
    BY DEF RejectInputs, MakeReportsDir, ResolveFails, RejectFormatsOrBaseline, Prepare,
        NothingToPrefix, PrefixFails, Publish, SeverityRejected, KillScript, NextStep
<1>3. /\ json_path' \in {NoPath, JsonPath}
      /\ at' \in BeforeScan => json_path' = NoPath
      /\ at' \in {"scan"} \cup AfterScan => json_path' = JsonPath
    BY DEF RejectInputs, MakeReportsDir, ResolveFails, RejectFormatsOrBaseline, Prepare,
        NothingToPrefix, PrefixFails, Publish, SeverityRejected, KillScript, NextStep
<1>4. QED BY <1>1, <1>2, <1>3, ScriptGoesOn

LEMMA StatusBeginUse == ASSUME StatusInv, BeginUse PROVE StatusInv'
<1> USE DEF StatusInv, BeginUse, Goto, BeforeScan, AfterScan, Ending, Places
<1>1. GateInv'
    BY GateStep
<1>2. ScriptWhere' /\ RunsItsCommand' /\ JsonOfThisUse' /\ StatusRight'
    BY DEF ScriptWhere, RunsItsCommand, JsonOfThisUse, StatusRight, vars
<1>3. QED BY <1>1, <1>2

\* The scan starts, and ends.
LEMMA StatusScan == ASSUME StatusInv, Scan PROVE StatusInv'
<1> USE DEF StatusInv, Scan, Run, Goto, BeforeScan, AfterScan, Ending, Places
<1>1. GateInv' /\ pc' # "idle" /\ cmd' = ScanCommand(use)
    BY GateStart DEF Start
<1>2. ScriptWhere' /\ RunsItsCommand' /\ JsonOfThisUse' /\ StatusRight'
    BY <1>1 DEF ScriptWhere, RunsItsCommand, JsonOfThisUse, StatusRight
<1>3. QED BY <1>1, <1>2

\* When the scan has worked, its reports are on disk.
LEMMA ScannedWrote ==
    ASSUME GateInv, ScriptWhere, RunsItsCommand, at = "scanning", exit = "ok",
           NEW f \in use.formats \cup {"json"}
    PROVE disk[OutputOf(f).path] = [kind |-> IF f = "json" THEN "report" ELSE "text",
                                    ids |-> report]
<1>1. use \in Use /\ cmd = ScanCommand(use)
    BY UseType DEF ScriptWhere, RunsItsCommand
<1>2. PICK k \in DOMAIN cmd.outs : cmd.outs[k] = OutputOf(f)
    BY <1>1, ScanWrites
<1>3. disk[OutputOf(f).path] = Rendered(OutputOf(f))
    BY <1>2, GateReports DEF ReportsBeforeVerdict
<1>4. OutputOf(f).format = IF f = "json" THEN "json" ELSE "text"
    BY <1>1 DEF OutputOf, Use
<1>5. cmd.kind = "scan"
    BY <1>1 DEF ScanCommand
<1>6. QED BY <1>3, <1>4, <1>5 DEF Rendered

LEMMA StatusScanned == ASSUME StatusInv, Scanned PROVE StatusInv'
<1> USE DEF StatusInv, Scanned, Goto, BeforeScan, AfterScan, Ending, Places
<1>1. GateInv' /\ pc' = "idle"
    BY GateReturn DEF Return
<1>2. disk[OutputOf("json").path] = [kind |-> "report", ids |-> report]
    BY ScannedWrote
<1>3. disk[JsonPath].kind = "report" /\ disk[JsonPath].ids = report
    BY <1>2 DEF OutputOf
<1>4. ScriptWhere' /\ RunsItsCommand' /\ JsonOfThisUse' /\ StatusRight'
    BY <1>1, <1>3 DEF ScriptWhere, RunsItsCommand, JsonOfThisUse, StatusRight, Return
<1>5. QED BY <1>1, <1>4

\* The scan writes nothing but reports.
LEMMA ScanWritesReports ==
    ASSUME NEW u, NEW k \in DOMAIN ScanCommand(u).outs
    PROVE ScanCommand(u).outs[k].path \in ReportPaths
<1> DEFINE S == {OutputOf("markdown"), OutputOf("sarif"), OutputOf("json")}
           Chosen(format) ==
            IF format \in ScanFormats(u.formats) THEN <<OutputOf(format)>> ELSE <<>>
<1>1. ScanCommand(u).outs = (Chosen("markdown") \o Chosen("sarif")) \o Chosen("json")
    BY DEF ScanCommand, ScanOutputs
<1>2. \A o \in S : o.path \in ReportPaths
    BY DEF OutputOf, ReportPaths
<1>3. (\A o \in S : <<o>> \in Seq(S)) /\ <<>> \in Seq(S)
    OBVIOUS
<1>4. OutputOf("markdown") \in S /\ OutputOf("sarif") \in S /\ OutputOf("json") \in S
    OBVIOUS
<1>5. Chosen("markdown") \in Seq(S) /\ Chosen("sarif") \in Seq(S) /\ Chosen("json") \in Seq(S)
    BY <1>3, <1>4
<1> HIDE DEF S, Chosen
<1>6. ScanCommand(u).outs \in Seq(S)
    BY <1>1, <1>5, ConcatHolds
<1>7. ScanCommand(u).outs[k] \in S
    BY <1>6
<1>8. QED BY <1>2, <1>7

\* An advisory scan blocks nothing.
LEMMA AdvisoryScan ==
    ASSUME GateInv, ScriptWhere, RunsItsCommand, at = "scanning",
           use.baseline \notin ReportPaths
    PROVE exit # "blocked"
<1>1. cmd = ScanCommand(use)
    BY DEF RunsItsCommand
<1>2. /\ cmd.cli.mode = "advisory" /\ cmd.cli.baseline = use.baseline
      /\ cmd.kind = "scan" /\ ~cmd.use_policy_config
    BY <1>1 DEF ScanCommand, PolicyArgs
<1>3. Says("mode") = "advisory" /\ Says("baseline") = use.baseline
    BY <1>2 DEF Says, Unset
<1>4. Says("baseline") \notin Outputs
    BY <1>1, <1>3, ScanWritesReports DEF Outputs
<1>5. QED BY <1>2, <1>3, <1>4 DEF GateInv, VerdictFollowsPolicy, Judged

LEMMA StatusScanStops == ASSUME StatusInv, ScanStops PROVE StatusInv'
<1> USE DEF StatusInv, ScanStops, Stop, Goto, BeforeScan, AfterScan, Ending, Places
<1>1. GateInv' /\ pc' = "idle"
    BY GateReturn DEF Return
<1>2. use.baseline \notin ReportPaths => exit # "blocked"
    BY AdvisoryScan
<1>3. ScriptWhere' /\ RunsItsCommand' /\ JsonOfThisUse' /\ StatusRight'
    BY <1>1, <1>2 DEF ScriptWhere, RunsItsCommand, JsonOfThisUse, StatusRight, Return
<1>4. QED BY <1>1, <1>3

-----------------------------------------------------------------------------
\* The script writes a report that is not the JSON report, and goes on.
LEMMA ScriptWritesOther ==
    ASSUME StatusInv, pc = "idle", at \in AfterScan, at' \in AfterScan \cup Ending,
           at' \notin {"judging"}, disk' \in [Paths -> Content], disk'[JsonPath] = disk[JsonPath],
           at' \in Ending => status' = "error",
           UNCHANGED <<tree, config, pc, cmd, policy, report, todo, exit, start, use, json_path,
                       scanned>>
    PROVE StatusInv'
<1> USE DEF StatusInv, BeforeScan, AfterScan, Ending, Places
<1>1. GateInv'
    BY ScriptWrites
<1>2. ScriptWhere' /\ RunsItsCommand' /\ JsonOfThisUse' /\ StatusRight'
    BY DEF ScriptWhere, RunsItsCommand, JsonOfThisUse, StatusRight
<1>3. QED BY <1>1, <1>2

\* A file that is replaced by another leaves the type of the disk.
LEMMA DiskType ==
    ASSUME GateInv, NEW p \in Paths, NEW c \in Content
    PROVE [disk EXCEPT ![p] = c] \in [Paths -> Content]
BY DEF GateInv, TypeOK

LEMMA ReportsApart ==
    /\ ReportPaths \subseteq Paths /\ JsonPath \in ReportPaths /\ MarkdownPath \in ReportPaths
    /\ SarifPath \in ReportPaths /\ TmpPath \in ReportPaths /\ SummaryPath \in ReportPaths
    /\ JsonPath \notin {MarkdownPath, SarifPath, TmpPath, SummaryPath}
    /\ MarkdownPath \notin {SarifPath, TmpPath, SummaryPath}
    /\ SarifPath \notin {TmpPath, SummaryPath} /\ TmpPath # SummaryPath
BY ActionAssumption DEF ReportPaths

LEMMA EmptyFiles == NoFile \in Content /\ Torn \in Content
BY DEF NoFile, Torn, Content

LEMMA StatusPrefix ==
    ASSUME StatusInv, WriteTmp \/ ReplaceSarif \/ WriteSummary \/ SummaryFails
    PROVE StatusInv'
<1>1. pc = "idle" /\ at \in AfterScan /\ disk \in [Paths -> Content]
    BY DEF StatusInv, ScriptWhere, Places, BeforeScan, AfterScan, Ending, WriteTmp, ReplaceSarif,
        WriteSummary, SummaryFails, GateInv, TypeOK
<1>2. CASE WriteTmp
    <2>1. disk' \in [Paths -> Content] /\ disk'[JsonPath] = disk[JsonPath]
        BY <1>1, <1>2, ReportsApart, EmptyFiles DEF WriteTmp
    <2>2. QED BY <1>1, <1>2, <2>1, ScriptWritesOther DEF WriteTmp, Goto, AfterScan, Ending
<1>3. CASE ReplaceSarif
    <2>1. SarifPath \in Paths /\ [disk[SarifPath] EXCEPT !.kind = "prefixed"] \in Content
        BY <1>1, ReportsApart DEF Content
    <2>2. disk' \in [Paths -> Content] /\ disk'[JsonPath] = disk[JsonPath]
        BY <1>1, <1>3, <2>1, ReportsApart, EmptyFiles DEF ReplaceSarif
    <2>3. QED BY <1>1, <1>3, <2>2, ScriptWritesOther DEF ReplaceSarif, Goto, AfterScan, Ending
<1>4. CASE WriteSummary
    <2>1. JsonPath \in Paths /\ [kind |-> "text", ids |-> disk[JsonPath].ids] \in Content
        BY <1>1, ReportsApart DEF Content
    <2>2. disk' \in [Paths -> Content] /\ disk'[JsonPath] = disk[JsonPath]
        BY <1>1, <1>4, <2>1, ReportsApart DEF WriteSummary
    <2>3. QED BY <1>1, <1>4, <2>2, ScriptWritesOther DEF WriteSummary, Goto, AfterScan, Ending
<1>5. CASE SummaryFails
    <2>1. disk' \in [Paths -> Content] /\ disk'[JsonPath] = disk[JsonPath]
        BY <1>1, <1>5, ReportsApart, EmptyFiles DEF SummaryFails
    <2>2. QED BY <1>1, <1>5, <2>1, ScriptWritesOther
            DEF SummaryFails, Goto, Stop, AfterScan, Ending
<1>6. QED BY <1>2, <1>3, <1>4, <1>5

-----------------------------------------------------------------------------
\* The verdict.
LEMMA StatusAdvise == ASSUME StatusInv, Advise PROVE StatusInv'
<1> USE DEF StatusInv, Advise, Stop, Goto, BeforeScan, AfterScan, Ending, Places
<1>1. GateInv'
    BY GateStep
<1>2. ScriptWhere' /\ RunsItsCommand' /\ JsonOfThisUse'
    BY DEF ScriptWhere, RunsItsCommand, JsonOfThisUse, vars
<1>3. StatusRight'
    BY DEF StatusRight, Enforced
<1>4. QED BY <1>1, <1>2, <1>3

LEMMA StatusEvaluate == ASSUME StatusInv, Evaluate PROVE StatusInv'
<1> USE DEF StatusInv, Evaluate, Run, Goto, BeforeScan, AfterScan, Ending, Places
<1>1. GateInv' /\ pc' # "idle" /\ cmd' = EvaluateCommand(use) /\ start' = disk /\ disk' = disk
    BY GateStart DEF Start
<1>2. ScriptWhere' /\ JsonOfThisUse' /\ StatusRight'
    BY <1>1 DEF ScriptWhere, JsonOfThisUse, StatusRight
<1>3. RunsItsCommand'
    BY <1>1 DEF RunsItsCommand, Enforced
<1>4. QED BY <1>1, <1>2, <1>3

\* The verdict of the evaluation, in the words of StatusFollowsInputs.
LEMMA EvaluatedRight ==
    ASSUME StatusInv, at = "judging", exit \in {"ok", "blocked"}, use.baseline \notin ReportPaths
    PROVE exit = "blocked" <=>
            /\ Enforced
            /\ \E id \in scanned \ use.exclude :
                \/ id \in use.include
                \/ /\ Counts(id)
                   /\ use.baseline # NoPath => id \notin disk[use.baseline].ids
<1> USE DEF StatusInv
<1>1. /\ cmd = EvaluateCommand(use) /\ Enforced /\ EffectiveSeverity(use) # 0 /\ disk = start
      /\ disk[JsonPath].ids = scanned
    BY DEF RunsItsCommand, JsonOfThisUse, AfterScan
<1>2. /\ Says("mode") = "enforce"
      /\ Says("fail_severity") = EffectiveSeverity(use)
      /\ Says("fail_categories") = use.fail_categories
      /\ Says("include") = use.include
      /\ Says("exclude") = use.exclude
      /\ Says("baseline") = use.baseline
      /\ Outputs = {} /\ cmd.kind = "evaluate" /\ cmd.from = JsonPath
    BY <1>1, EvaluateSays
<1>3. Judged
    BY <1>2 DEF Judged
<1>4. report = scanned
    BY <1>1, <1>2, <1>3 DEF GateInv, OnlyWholeInputs
<1>5. exit = "blocked" <=>
            \E id \in report \ use.exclude :
                id \in use.include \/ (Serious(id) /\ id \notin Accepted)
    BY <1>2, <1>3 DEF GateInv, VerdictFollowsPolicy
<1>6. use.fail_on_findings \in BOOLEAN /\ SeverityOf \in [Ids -> Severity] /\ report \subseteq Ids
    BY UseType, GateAssumption DEF ScriptWhere, Use, GateInv, TypeOK
<1>7. \A id \in Ids : Serious(id) <=> Counts(id)
    BY <1>1, <1>2, <1>6 DEF Serious, Counts, EffectiveSeverity, Severity
<1>8. \A id : id \notin Accepted <=>
            (use.baseline # NoPath => id \notin disk[use.baseline].ids)
    BY <1>1, <1>2 DEF Accepted
<1>9. QED BY <1>1, <1>4, <1>5, <1>6, <1>7, <1>8

LEMMA StatusEvaluated == ASSUME StatusInv, Evaluated PROVE StatusInv'
<1> USE DEF StatusInv, Evaluated, Stop, Goto, BeforeScan, AfterScan, Ending, Places
<1>1. GateInv' /\ pc' = "idle" /\ disk' = disk
    BY GateReturn DEF Return
<1>2. ScriptWhere' /\ RunsItsCommand' /\ JsonOfThisUse'
    BY <1>1 DEF ScriptWhere, RunsItsCommand, JsonOfThisUse
<1>3. StatusRight'
    BY <1>1, EvaluatedRight DEF StatusRight, Enforced, Counts
<1>4. QED BY <1>1, <1>2, <1>3

\* The trap removes a report, never a baseline from elsewhere.
LEMMA StatusCleanup == ASSUME StatusInv, Cleanup PROVE StatusInv'
<1> USE DEF StatusInv, Cleanup, Goto, BeforeScan, AfterScan, Ending, Places
<1>1. pc = "idle" /\ disk \in [Paths -> Content] /\ json_path \in {NoPath, JsonPath}
    BY DEF ScriptWhere, GateInv, TypeOK
<1>2. disk' \in [Paths -> Content] /\ \A p \in Paths \ ReportPaths : disk'[p] = disk[p]
    BY <1>1, ReportsApart, EmptyFiles
<1>3. GateInv'
    BY <1>1, <1>2, ScriptWrites
<1>4. ScriptWhere' /\ RunsItsCommand' /\ JsonOfThisUse'
    BY DEF ScriptWhere, RunsItsCommand, JsonOfThisUse
<1>5. use.baseline \in Paths \cup {NoPath}
    BY UseType DEF ScriptWhere
<1>6. StatusRight'
    BY <1>2, <1>5 DEF StatusRight, Enforced, Counts
<1>7. QED BY <1>3, <1>4, <1>6

\* What happens between uses, and while a command runs.
LEMMA StatusCheckout == ASSUME StatusInv, Checkout PROVE StatusInv'
<1> USE DEF StatusInv, Checkout, script, BeforeScan, AfterScan, Ending, Places
<1>1. GateInv'
    BY GateEditTree
<1>2. ScriptWhere' /\ RunsItsCommand' /\ JsonOfThisUse' /\ StatusRight'
    BY DEF ScriptWhere, RunsItsCommand, JsonOfThisUse, StatusRight, EditTree
<1>3. QED BY <1>1, <1>2

LEMMA EvaluateWritesNothing ==
    ASSUME StatusInv, CommandStep, at = "judging"
    PROVE disk' = disk
<1> USE DEF StatusInv, CommandStep
<1>1. GateInv' /\ cmd' = cmd /\ start' = start /\ pc' # "idle"
    BY GateStep, CommandStays
<1>2. cmd' = EvaluateCommand(use) /\ disk = start
    BY <1>1 DEF RunsItsCommand
<1>3. cmd'.outs = <<>>
    BY <1>2 DEF EvaluateCommand
<1>4. Outputs' = {}
    BY <1>3 DEF Outputs
<1>5. \A p \in Paths : disk'[p] = start'[p]
    BY <1>1, <1>4 DEF GateInv, OnlyOutputsTouched
<1>6. disk' \in [Paths -> Content] /\ start' \in [Paths -> Content]
    BY <1>1 DEF GateInv, TypeOK
<1>7. QED BY <1>1, <1>2, <1>5, <1>6

LEMMA StatusCommandStep == ASSUME StatusInv, CommandStep PROVE StatusInv'
<1> USE DEF StatusInv, CommandStep, script, BeforeScan, AfterScan, Ending, Places
<1>1. GateInv' /\ cmd' = cmd /\ start' = start /\ pc' # "idle"
    BY GateStep, CommandStays
<1>2. at \in {"scanning", "judging"}
    BY DEF ScriptWhere
<1>3. at = "judging" => disk' = disk
    BY EvaluateWritesNothing
<1>4. ScriptWhere' /\ StatusRight'
    BY <1>1, <1>2 DEF ScriptWhere, StatusRight
<1>5. RunsItsCommand' /\ JsonOfThisUse'
    BY <1>1, <1>2, <1>3 DEF RunsItsCommand, JsonOfThisUse, Enforced
<1>6. QED BY <1>1, <1>4, <1>5

LEMMA StatusStutter == ASSUME StatusInv, UNCHANGED actionVars PROVE StatusInv'
<1> USE DEF StatusInv, actionVars, script
<1>1. GateInv'
    BY GateEditTree
<1>2. ScriptWhere' /\ RunsItsCommand' /\ JsonOfThisUse' /\ StatusRight'
    BY DEF ScriptWhere, RunsItsCommand, JsonOfThisUse, StatusRight, vars, Enforced, Counts
<1>3. QED BY <1>1, <1>2

-----------------------------------------------------------------------------
\* Every step keeps the invariant.
LEMMA StatusStep == ASSUME StatusInv, [ActionNext]_actionVars PROVE StatusInv'
BY StepsWithoutVerdict, StatusBeginUse, StatusScan, StatusScanned, StatusScanStops,
    StatusPrefix, StatusAdvise, StatusEvaluate, StatusEvaluated, StatusCleanup,
    StatusCheckout, StatusCommandStep, StatusStutter DEF ActionNext

\* The gate's invariant, and that of the script, hold always.
THEOREM ActionInvariance == ActionSpec => []StatusInv
BY StatusStep, StatusInit, PTL DEF ActionSpec

\* For any findings, inputs and number of uses: a use that runs to its end is
\* judged by its own scan, its inputs and its baseline, and by nothing else.
THEOREM ActionFollowsInputs == ActionSpec => []StatusFollowsInputs
<1>1. StatusInv => StatusFollowsInputs
    BY DEF StatusInv, StatusRight, StatusFollowsInputs, Ended, Ending
<1>2. QED BY <1>1, ActionInvariance, PTL

\* The policies and reports of the commands are right inside the action, too.
THEOREM ActionKeepsGate == ActionSpec => [](VerdictFollowsPolicy /\ ReportsBeforeVerdict)
<1>1. StatusInv => VerdictFollowsPolicy /\ ReportsBeforeVerdict
    BY GateReports DEF StatusInv, GateInv
<1>2. QED BY <1>1, ActionInvariance, PTL

-----------------------------------------------------------------------------
\* The reports that were asked for tell what the scan found, from the scan on
\* and, once they are published, to the end.
ReportsTold ==
    /\ at = "replace" => use.nested
    /\ (at \in AfterScan \/ (published # {} /\ at \in Ending)) =>
        /\ "json" \in use.formats =>
            disk[JsonPath].kind = "report" /\ disk[JsonPath].ids = scanned
        /\ "markdown" \in use.formats =>
            disk[MarkdownPath].kind = "text" /\ disk[MarkdownPath].ids = scanned
        /\ "sarif" \in use.formats =>
            /\ disk[SarifPath].ids = scanned
            /\ disk[SarifPath].kind =
                IF use.nested /\ at \notin {"prefix", "replace"} THEN "prefixed" ELSE "text"

\* What is published, and the summary.
PublishedWhat ==
    /\ published \in {{}, {SummaryPath} \cup PublishedReports(use.formats)}
    /\ at \in {"scan", "scanning", "prefix", "replace", "summary", "publish"} \cup BeforeScan =>
        published = {}
    /\ (at = "publish" \/ (published # {} /\ at # "idle")) =>
        disk[SummaryPath].kind = "text" /\ disk[SummaryPath].ids = scanned

\* What becomes of the JSON report.
JsonLeft ==
    /\ (json_path = NoPath /\ at # "idle") => disk[JsonPath] = before
    /\ (at = "ended" /\ status # "killed" /\ json_path # NoPath /\ ~JsonRequested) =>
        disk[JsonPath] = NoFile

LeavesInv == ReportsTold /\ PublishedWhat /\ JsonLeft

LEMMA LeavesInit == ActionInit => LeavesInv
BY DEF ActionInit, LeavesInv, ReportsTold, PublishedWhat, JsonLeft, AfterScan, Ending, BeforeScan

\* Steps that leave the files alone and do not publish.
LEMMA LeavesQuietly ==
    ASSUME StatusInv, LeavesInv, UNCHANGED <<disk, use, scanned, before, published>>,
           \/ RejectInputs \/ MakeReportsDir \/ ResolveFails \/ RejectFormatsOrBaseline \/ Prepare
           \/ NothingToPrefix \/ PrefixFails \/ SeverityRejected \/ KillScript \/ NextStep
           \/ Scan \/ ScanStops \/ Advise \/ Evaluate \/ Evaluated \/ Checkout
    PROVE LeavesInv'
<1> USE DEF LeavesInv, Goto, Stop, BeforeScan, AfterScan, Ending, Places
<1>1. /\ use \in Uses /\ at \in Places /\ json_path \in {NoPath, JsonPath}
      /\ at \in {"inputs", "prepare"} => json_path = NoPath
      /\ at \in {"scan", "scanning"} \cup AfterScan => json_path = JsonPath
      /\ JsonPath # NoPath
    BY ReportPathsType DEF StatusInv, ScriptWhere
<1>2. ReportsTold'
    BY <1>1 DEF ReportsTold, PublishedWhat, RejectInputs, MakeReportsDir, ResolveFails,
        RejectFormatsOrBaseline, Prepare, NothingToPrefix, HasPrefix, PrefixFails,
        SeverityRejected, KillScript, NextStep, Scan, ScanStops, Advise, Evaluate, Evaluated,
        Checkout, script
<1>3. PublishedWhat'
    BY <1>1 DEF PublishedWhat, RejectInputs, MakeReportsDir, ResolveFails,
        RejectFormatsOrBaseline, Prepare, NothingToPrefix, HasPrefix, PrefixFails,
        SeverityRejected, KillScript, NextStep, Scan, ScanStops, Advise, Evaluate, Evaluated,
        Checkout, script
<1>4. JsonLeft'
    BY <1>1 DEF JsonLeft, JsonRequested, RejectInputs, MakeReportsDir, ResolveFails,
        RejectFormatsOrBaseline, Prepare, NothingToPrefix, PrefixFails, SeverityRejected,
        KillScript, NextStep, Scan, ScanStops, Advise, Evaluate, Evaluated, Checkout, script
<1>5. QED BY <1>2, <1>3, <1>4

LEMMA LeavesBeginUse == ASSUME StatusInv, LeavesInv, BeginUse PROVE LeavesInv'
BY DEF LeavesInv, ReportsTold, PublishedWhat, JsonLeft, BeginUse, Goto, vars, AfterScan, Ending,
    BeforeScan

LEMMA LeavesScanned == ASSUME StatusInv, LeavesInv, Scanned PROVE LeavesInv'
<1> USE DEF LeavesInv, Scanned, Goto, BeforeScan, AfterScan, Ending
<1>1. ASSUME NEW f \in use.formats \cup {"json"}
      PROVE disk[OutputOf(f).path] = [kind |-> IF f = "json" THEN "report" ELSE "text",
                                      ids |-> report]
    BY <1>1, ScannedWrote DEF StatusInv
<1>2. /\ OutputOf("json").path = JsonPath /\ OutputOf("markdown").path = MarkdownPath
      /\ OutputOf("sarif").path = SarifPath
    BY DEF OutputOf
<1>3. disk' = disk /\ published' = {} /\ json_path # NoPath
    BY ReportPathsType DEF Return, PublishedWhat, StatusInv, ScriptWhere
<1>4. /\ disk[JsonPath] = [kind |-> "report", ids |-> report]
      /\ "markdown" \in use.formats => disk[MarkdownPath] = [kind |-> "text", ids |-> report]
      /\ "sarif" \in use.formats => disk[SarifPath] = [kind |-> "text", ids |-> report]
    BY <1>1, <1>2
<1>5. ReportsTold'
    BY <1>3, <1>4 DEF ReportsTold
<1>6. PublishedWhat' /\ JsonLeft'
    BY <1>3 DEF PublishedWhat, JsonLeft
<1>7. QED BY <1>5, <1>6

\* A step after the scan, before anything is published, that writes.
LEMMA LeavesWrites ==
    ASSUME StatusInv, LeavesInv, WriteTmp \/ ReplaceSarif \/ WriteSummary \/ SummaryFails
    PROVE LeavesInv'
<1> USE DEF LeavesInv, Goto, Stop, BeforeScan, AfterScan, Ending
<1>1. /\ disk \in [Paths -> Content] /\ published = {} /\ json_path # NoPath
      /\ JsonPath \in Paths /\ MarkdownPath \in Paths /\ SarifPath \in Paths
      /\ TmpPath \in Paths /\ SummaryPath \in Paths
    BY ReportPathsType, ReportsApart DEF StatusInv, ScriptWhere, GateInv, TypeOK, PublishedWhat,
        WriteTmp, ReplaceSarif, WriteSummary, SummaryFails
<1>2. CASE WriteTmp
    BY <1>1, <1>2, ReportsApart
        DEF WriteTmp, HasPrefix, ReportsTold, PublishedWhat, JsonLeft
<1>3. CASE ReplaceSarif
    <2>1. disk[SarifPath] \in Content
        BY <1>1
    <2>2. disk'[SarifPath] = [disk[SarifPath] EXCEPT !.kind = "prefixed"]
        BY <1>1, <1>3, ReportsApart DEF ReplaceSarif
    <2>3. disk'[SarifPath].kind = "prefixed" /\ disk'[SarifPath].ids = disk[SarifPath].ids
        BY <2>1, <2>2 DEF Content
    <2>4. disk'[JsonPath] = disk[JsonPath] /\ disk'[MarkdownPath] = disk[MarkdownPath]
        BY <1>1, <1>3, ReportsApart DEF ReplaceSarif
    <2>5. at = "replace" /\ at' = "summary"
        BY <1>3 DEF ReplaceSarif
    <2>6. ReportsTold'
        BY <2>3, <2>4, <2>5, <1>3 DEF ReplaceSarif, ReportsTold
    <2>7. QED BY <1>1, <1>3, <2>4, <2>6 DEF ReplaceSarif, PublishedWhat, JsonLeft
<1>4. CASE WriteSummary
    <2>1. /\ disk'[SummaryPath].kind = "text" /\ disk'[SummaryPath].ids = scanned
          /\ disk'[JsonPath] = disk[JsonPath] /\ disk'[MarkdownPath] = disk[MarkdownPath]
          /\ disk'[SarifPath] = disk[SarifPath]
        BY <1>1, <1>4, ReportsApart DEF WriteSummary, StatusInv, JsonOfThisUse
    <2>2. QED BY <1>1, <1>4, <2>1 DEF WriteSummary, ReportsTold, PublishedWhat, JsonLeft
<1>5. CASE SummaryFails
    BY <1>1, <1>5 DEF SummaryFails, ReportsTold, PublishedWhat, JsonLeft
<1>6. QED BY <1>2, <1>3, <1>4, <1>5

LEMMA LeavesPublish == ASSUME StatusInv, LeavesInv, Publish PROVE LeavesInv'
BY DEF LeavesInv, Publish, Goto, vars, ReportsTold, PublishedWhat, JsonLeft, AfterScan, Ending,
    BeforeScan

\* The trap removes no report that was asked for.
LEMMA LeavesCleanup == ASSUME StatusInv, LeavesInv, Cleanup PROVE LeavesInv'
<1> USE DEF LeavesInv, Cleanup, Goto, BeforeScan, AfterScan, Ending
<1>1. /\ disk \in [Paths -> Content] /\ json_path \in {NoPath, JsonPath}
      /\ JsonPath \in Paths /\ JsonPath # NoPath
    BY ReportPathsType DEF StatusInv, ScriptWhere, GateInv, TypeOK
<1>2. /\ disk'[MarkdownPath] = disk[MarkdownPath] /\ disk'[SarifPath] = disk[SarifPath]
      /\ disk'[SummaryPath] = disk[SummaryPath]
      /\ json_path = NoPath \/ JsonRequested => disk' = disk
      /\ json_path # NoPath /\ ~JsonRequested => disk'[JsonPath] = NoFile
    BY <1>1, ReportsApart
<1>3. ReportsTold' /\ PublishedWhat' /\ JsonLeft'
    BY <1>1, <1>2 DEF ReportsTold, PublishedWhat, JsonLeft, JsonRequested
<1>4. QED BY <1>3

LEMMA LeavesCommandStep == ASSUME StatusInv, LeavesInv, CommandStep PROVE LeavesInv'
<1> USE DEF LeavesInv, BeforeScan, AfterScan, Ending
<1>1. UNCHANGED script /\ at \in {"scanning", "judging"} /\ json_path # NoPath
    BY ReportPathsType DEF CommandStep, StatusInv, ScriptWhere
<1>2. CASE at = "judging"
    <2>1. disk' = disk
        BY <1>2, EvaluateWritesNothing
    <2>2. QED BY <1>1, <2>1 DEF script, ReportsTold, PublishedWhat, JsonLeft, JsonRequested
<1>3. CASE at = "scanning"
    BY <1>1, <1>3 DEF script, ReportsTold, PublishedWhat, JsonLeft
<1>4. QED BY <1>1, <1>2, <1>3

LEMMA LeavesStep == ASSUME StatusInv, LeavesInv, [ActionNext]_actionVars PROVE LeavesInv'
<1> DEFINE quiet == \/ RejectInputs \/ MakeReportsDir \/ ResolveFails
                    \/ RejectFormatsOrBaseline \/ Prepare \/ NothingToPrefix \/ PrefixFails
                    \/ SeverityRejected \/ KillScript \/ NextStep \/ Scan \/ ScanStops \/ Advise
                    \/ Evaluate \/ Evaluated \/ Checkout
<1>1. CASE quiet
    <2>1. UNCHANGED <<disk, use, scanned, before, published>>
        BY <1>1 DEF RejectInputs, MakeReportsDir, ResolveFails, RejectFormatsOrBaseline, Prepare,
            NothingToPrefix, PrefixFails, SeverityRejected, KillScript, NextStep, Scan, Run,
            Start, ScanStops, Return, Advise, Evaluate, Evaluated, Checkout, EditTree, script, vars
    <2>2. QED BY <1>1, <2>1, LeavesQuietly
<1>2. CASE UNCHANGED actionVars
    BY <1>2 DEF actionVars, vars, script, LeavesInv, ReportsTold, PublishedWhat, JsonLeft,
        JsonRequested
<1>3. QED BY <1>1, <1>2, LeavesBeginUse, LeavesScanned, LeavesWrites, LeavesPublish,
        LeavesCleanup, LeavesCommandStep DEF ActionNext

\* For any findings, inputs and number of uses, and whatever fails: the reports
\* of a use that has ended are there and its own, and no others of its making.
THEOREM ActionLeaves == ActionSpec => []LeavesWhatItPublished
<1>1. ASSUME StatusInv, LeavesInv, Ended PROVE LeavesWhatItPublished
    <2>1. use \in Use
        BY <1>1, UseType DEF StatusInv, ScriptWhere
    <2>2. \A f \in use.formats : f \in {"json", "markdown", "sarif"}
        BY <2>1 DEF Use
    <2>3. /\ OutputOf("json").path = JsonPath /\ OutputOf("markdown").path = MarkdownPath
          /\ OutputOf("sarif").path = SarifPath
        BY DEF OutputOf
    <2>4. ASSUME NEW p \in published
          PROVE /\ disk[p].kind \notin {"none", "torn"} /\ disk[p].ids = scanned
                /\ p = SarifPath => (disk[p].kind = "prefixed" <=> use.nested)
        <3>1. CASE p = SummaryPath
            BY <1>1, <2>4, <3>1, ReportsApart DEF LeavesInv, PublishedWhat, Ended
        <3>2. CASE \E f \in use.formats : p = OutputOf(f).path
            <4>1. PICK f \in use.formats : p = OutputOf(f).path
                BY <3>2
            <4>2. /\ published # {} /\ at \in Ending
                  /\ IF use.nested /\ at \notin {"prefix", "replace"} THEN use.nested ELSE ~use.nested
                BY <1>1, <2>4 DEF Ended, Ending
            <4>3. CASE f = "json"
                BY <1>1, <2>3, <4>1, <4>2, <4>3, ReportsApart DEF LeavesInv, ReportsTold
            <4>4. CASE f = "markdown"
                BY <1>1, <2>3, <4>1, <4>2, <4>4, ReportsApart DEF LeavesInv, ReportsTold
            <4>5. CASE f = "sarif"
                BY <1>1, <2>3, <4>1, <4>2, <4>5 DEF LeavesInv, ReportsTold
            <4>6. QED BY <2>2, <4>1, <4>3, <4>4, <4>5
        <3>3. QED BY <1>1, <2>4, <3>1, <3>2 DEF LeavesInv, PublishedWhat, PublishedReports
    <2>5. QED BY <1>1, <2>4 DEF LeavesInv, JsonLeft, LeavesWhatItPublished, Ended
<1>2. StatusInv /\ LeavesInv => LeavesWhatItPublished
    BY <1>1 DEF LeavesWhatItPublished
<1>3. QED BY <1>2, StatusInit, LeavesInit, StatusStep, LeavesStep, PTL DEF ActionSpec
===============================================================================
