---------------------------- MODULE MCAuditLoop ----------------------------
(***************************************************************************)
(* TLC instance of AuditLoop: two actors of which one is registered, two   *)
(* branches of one request, and envelopes that reach every exit of the     *)
(* loop: clean, held, contaminated and rejected channel material, the      *)
(* three answers of the capability wall, and proposals the OT gate allows, *)
(* kills on a hold and kills as critical.  Beside the cases, gate, wall    *)
(* and dual court are each put the questions of a bounded universe of      *)
(* proposals, registry answers, manifests and whole actions.               *)
(***************************************************************************)
EXTENDS AuditLoop, JudgeQuestions, FiniteSetsExt

CONSTANTS pin, pout, pphi, preg, proot, pgit, a1, a2, none, u1, b1, b2,
    pctl, pprb, pnul, pown, plog, pvar, pups, url1, url2, url3, d1, d2, d3, s1, s2,
    MaxTokens   \* bound on the token tables one command text hits

GatePath == {pin, pout, pphi, preg, proot, pgit}
WallPath == GatePath \cup {pctl, pprb, pnul, url1, url2, url3}
MCPath == WallPath \cup {pown, plog, pvar, pups}
MCOutside == {pout}
MCProtected == {pphi, preg}
MCRegistryPath == {preg}
MCLedgerPath == {}
MCUnscoped == {proot}
MCSurface == {pgit, pphi, preg, pctl, pown}
MCUrl == {url1, url2, url3}
MCUnresolved == {pnul}
MCControl == {pctl}
MCProbe == {pprb}
MCDomain == {d1, d2, d3}
MCDomainOf == [u \in MCUrl |-> CASE u = url1 -> d1 [] u = url2 -> d2 [] u = url3 -> none]
MCInternal == {pown}
MCBoundary == {pown, plog}
MCGitExec == {pgit}
MCClimbing == {pups}
MCCustom == {plog}
MCVariable == {pvar}
MCLoopback == {d1}
MCPublicBind == {d3}
MCRoadGuarded == {plog}
MCRecipe == {s2}
MCRecipeEffects == [r \in MCRecipe |-> {"READ", "WRITE"}]
MCLane == [r \in MCRecipe |-> {pin, plog}]
MCSkill == {s1, s2}
MCPassRoad == {s2}
MCActor == {a1, a2}
MCRegistered == {a1}

Command(actor, user, text) ==
    [actor_id |-> actor, declared_scope |-> "PROJECT_WRITE", expected |-> {"READ"},
     text |-> text, target_paths |-> {pin}, operands |-> {},
     parent_event_id |-> TRUE, user_request_id |-> user # NoUser]

NoRoad == [form |-> "none", recipe |-> s2, bound |-> FALSE, traced |-> FALSE,
           complete |-> FALSE, transparent |-> FALSE, names |-> {}]

\* What the channel eye finds in an envelope whose content hits the tokens.
EyeFindings(channel, content) ==
    ChannelFindings([channel_type |-> channel, content |-> content, blank |-> FALSE,
                     large |-> FALSE, grant |-> FALSE, marks |-> {}, from_rejected |-> FALSE,
                     road |-> NoRoad, effects |-> {"READ"}, target_paths |-> {pin}])

From(channel, actor, branch, user, content, capability, text) ==
    [channel |-> channel, named |-> TRUE, source |-> actor, branch |-> branch,
     user |-> user, findings |-> EyeFindings(channel, content), capability |-> capability,
     proposal |-> Command(actor, user, text)]

Agent(actor, branch, text) == From("AGENT_PROPOSAL", actor, branch, u1, {}, "PASS", text)

MCEnvelope ==
    {Agent(a1, b, text) : b \in {b1, b2}, text \in {{}, {"network"}, {"privilege"}}}
    \cup {Agent(a2, b1, {}),
          [Agent(a1, b1, {}) EXCEPT !.named = FALSE],
          From("AGENT_PROPOSAL", a1, b1, NoUser, {}, "PASS", {}),
          From("AGENT_PROPOSAL", a1, b1, u1, {"permission"}, "PASS", {}),
          From("AGENT_PROPOSAL", a1, b1, u1, {}, "HOLD", {}),
          From("AGENT_PROPOSAL", a1, b1, u1, {}, "KILL", {}),
          From("TOOL_METADATA", a2, b1, u1, {"poisoning"}, "PASS", {}),
          From("REJECTED_FEEDBACK", a2, b2, u1, {}, "PASS", {}),
          From("USER_REQUEST", a2, b1, u1, {}, "PASS", {})}

-----------------------------------------------------------------------------
\* Text combinations of up to MaxTokens tables, single effects, one or two
\* targets; provenance present or absent as a whole.
Universe ==
    {p \in [actor_id : {a1, none},
            declared_scope : {"READ_ONLY", "PROJECT_WRITE", "ADMIN"},
            expected : {{}, {"WRITE"}, {"DELETE"}, {"READ"}},
            text : UNION {kSubset(k, Token) : k \in 0..MaxTokens} \cap CommandText,
            target_paths : {{}} \cup {{t} : t \in GatePath} \cup {{pin, pout}, {pin, pgit}},
            operands : {{}, {pin}, {pgit}},
            parent_event_id : BOOLEAN,
            user_request_id : {TRUE}] :
        p.target_paths # {} => p.operands = {}}

MCGateQuestion ==
    {q \in [proposal : Universe,
            view : {"NO_REGISTRY", "UNKNOWN", "ACTIVE", "FROZEN", "BUGCHECK"}] :
        q.proposal.actor_id = none => q.view = "NO_REGISTRY"}

-----------------------------------------------------------------------------
\* The wall is asked about the effects and the targets under any manifest
\* without skills, about the process record, and about the skills.
NoTrace == [used |-> {}, required |-> {}, skipped |-> {}, stale |-> {}, claims |-> {},
            scan |-> "PASS", foreign |-> FALSE]

WallProposals ==
    {p \in [actor_id : {a1}, declared_scope : {"ADMIN"},
            expected : {{}, {"READ"}, {"WRITE"}, {"DELETE"}, {"NETWORK"}, {"READ", "DELETE"}},
            text : {{}, {"external_path"}, {"delete_verb"}, {"destructive", "delete_verb"},
                    {"destructive", "delete_verb", "recursive"},
                    {"destructive", "delete_verb", "recursive", "expansion"}},
            target_paths : {{}} \cup {{t} : t \in WallPath}
                           \cup {{pin, t} : t \in WallPath} \cup {{url1, t} : t \in WallPath},
            operands : {{}, {pin}, {pout}},
            parent_event_id : {TRUE}, user_request_id : {TRUE}] :
        p.target_paths # {} => p.operands = {}}

Manifests(contracts) ==
    {m \in [allowed_side_effects : {{}, {"READ"}, {"READ", "WRITE"}, {"WRITE", "DELETE"},
                                   {"READ", "NETWORK"}},
            rooted : BOOLEAN, domains : {{d1}}, allow_protected_targets : BOOLEAN,
            allow_reversible_delete : BOOLEAN, contracts : contracts] :
        m.allow_protected_targets => m.rooted}

PlainAsks ==
    {a \in [proposal : WallProposals,
            hits : {{}, {"write"}, {"delete"}, {"delete", "audit"}, {"network"}, {"privilege"},
                    {"secret"}, {"delete", "probe"}},
            process : {"absent"}, trace : {NoTrace}] :
        TablesAgree(a.proposal.text, a.hits)}

ProcessAsks ==
    {a \in [proposal : {p \in WallProposals : Cardinality(p.target_paths) < 2},
            hits : {{}, {"delete"}, {"delete", "implicit_cwd"}, {"network"}},
            process : {"partial", "complete"}, trace : {NoTrace}] :
        TablesAgree(a.proposal.text, a.hits)}

SkillAsks ==
    [proposal : {p \in WallProposals : p.expected = {"READ"} /\ p.target_paths = {pin} /\ p.text = {}},
     hits : {{}}, process : {"absent"},
     trace : [used : SUBSET Skill, required : {{}, {s2}}, skipped : SUBSET Skill,
              stale : {{}, {s2}}, claims : {{}, {s1}}, scan : {"PASS", "HOLD", "KILL"},
              foreign : BOOLEAN]]

MCWallQuestion ==
    [ask : PlainAsks \cup ProcessAsks, manifest : Manifests({{}}) \cup {NoManifest}]
    \cup [ask : SkillAsks, manifest : Manifests(SUBSET Skill)]

-----------------------------------------------------------------------------
\* The courts are asked about whole actions, in five groups: what a delete
\* reaches, where the network is used, what a payload or profile adds, what an
\* action leaves to its type, and the pass roads it may declare.
NoGateways == [s \in GatewaySource |-> NoGateway]

Proposal(expected, text, targets, scope) ==
    [actor_id |-> a1, declared_scope |-> scope, expected |-> expected, text |-> text,
     target_paths |-> targets, operands |-> {}, parent_event_id |-> TRUE,
     user_request_id |-> TRUE]

Action(type, p) ==
    [proposal |-> p, hits |-> {}, process |-> "absent", trace |-> NoTrace, tokens |-> {},
     personal |-> {}, sandbox |-> "absent", gateway |-> NoGateways, action_type |-> type,
     scoped |-> TRUE, shell |-> type = "SHELL", words |-> "known", marks |-> {},
     channel_type |-> "AGENT_PROPOSAL", content |-> {}, large |-> FALSE, claims |-> {},
     road |-> NoRoad]

Allowing(effects, protected, reversible) ==
    [allowed_side_effects |-> effects, rooted |-> TRUE, domains |-> {d1, d2},
     allow_protected_targets |-> protected, allow_reversible_delete |-> reversible,
     contracts |-> {}]

Liberal == Allowing(SideEffect, TRUE, FALSE)
Plain == [pending |-> FALSE, enabled |-> {}]

AgreeingAction(a) ==
    LET p == ProposalFromAction(a).proposal
    IN  TablesAgree(p.text, a.hits) /\ ScanTablesAgree(p.text, a.tokens)

DeleteActions ==
    {[Action(type, Proposal(expected, text, targets, "PROJECT_WRITE")) EXCEPT
          !.hits = hits, !.tokens = tokens, !.scoped = scoped, !.marks = marks] :
         type \in {"FILE_DELETE", "SHELL"}, expected \in {{}, {"DELETE"}, {"READ"}},
         text \in {{"delete_verb"}, {"destructive", "delete_verb"},
                   {"destructive", "delete_verb", "recursive"}},
         targets \in {{}} \cup {{t} : t \in Path} \cup {{pin, t} : t \in Path},
         hits \in {{}, {"delete"}}, tokens \in {{}, {"write"}, {"delete"}},
         scoped \in BOOLEAN, marks \in {{}, {"weakener"}}}

DeleteQuestion ==
    [action : {a \in DeleteActions : AgreeingAction(a)},
     manifest : {Liberal, Allowing({"READ", "WRITE"}, TRUE, TRUE)},
     view : {"NO_REGISTRY"}, profile : {Plain}]

Auth == [auth |-> TRUE, insecure |-> FALSE, exposure |-> "none", bind |-> d1,
         host |-> NoDomain, links |-> {}]

SomeGateways ==
    {Auth, [Auth EXCEPT !.auth = FALSE], [Auth EXCEPT !.insecure = TRUE],
     [Auth EXCEPT !.exposure = "other"], [Auth EXCEPT !.bind = d2],
     [Auth EXCEPT !.bind = d3], [Auth EXCEPT !.bind = NoDomain],
     [Auth EXCEPT !.links = {d2}]}

Gateways ==
    {NoGateways} \cup {[NoGateways EXCEPT !["payload"] = g] : g \in SomeGateways}
    \cup {[NoGateways EXCEPT !["metadata"] = g] : g \in SomeGateways}
    \cup {[NoGateways EXCEPT !["payload"] = Auth, !["harness"] = g] : g \in SomeGateways}

NetworkActions ==
    {[Action(type, Proposal(expected, text, targets, "EXTERNAL_IO")) EXCEPT
          !.hits = hits, !.tokens = tokens, !.marks = marks, !.words = words,
          !.gateway = gateway] :
         type \in {"NETWORK", "FILE_READ", "SHELL"}, expected \in {{}, {"READ"}},
         text \in {{}, {"network"}},
         targets \in {{}, {pin}, {url1}, {url2}, {url3}, {url1, url2}, {url1, url3}},
         hits \in {{}, {"network"}}, tokens \in {{}, {"network"}, {"network", "secret"}},
         marks \in {{}, {"network"}, {"network", "secret"}, {"network", "unclear"}},
         words \in {"known", "opaque"}, gateway \in Gateways}

NetworkQuestion ==
    [action : {a \in NetworkActions : AgreeingAction(a)}, manifest : {Liberal},
     view : {"NO_REGISTRY"}, profile : {Plain}]

PayloadActions ==
    {[Action(type, Proposal({effect}, {}, targets, "ADMIN")) EXCEPT
          !.tokens = tokens, !.personal = personal, !.sandbox = sandbox, !.channel_type = channel,
          !.content = content] :
         type \in {"FILE_READ", "FILE_WRITE"}, effect \in SideEffect,
         targets \in {{t} : t \in {pin, plog, pups, url1}},
         tokens \in {{}} \cup {{t} : t \in ScanToken}, personal \in {{}, {"BROWSER_PROFILE"}},
         sandbox \in SandboxRecord, channel \in {"AGENT_PROPOSAL", "TOOL_METADATA"},
         content \in {{}, {"permission"}}}

PayloadQuestion ==
    [action : PayloadActions, manifest : {Liberal}, view : {"NO_REGISTRY", "ACTIVE"},
     profile : {Plain, [pending |-> TRUE, enabled |-> {}],
                [pending |-> FALSE, enabled |-> Optional]}]

TypeActions ==
    {[Action(type, Proposal({}, text, {t}, "ADMIN")) EXCEPT
          !.hits = hits, !.scoped = scoped, !.shell = shell \/ @, !.words = words,
          !.process = process] :
         type \in ActionType, text \in {{}, {"privilege"}, {"env_change"}}, t \in Path,
         hits \in {{}, {"privilege"}}, scoped \in BOOLEAN, shell \in BOOLEAN,
         words \in {"known", "opaque", "unknown"}, process \in {"absent", "partial"}}

TypeQuestion ==
    [action : {a \in TypeActions : AgreeingAction(a)},
     manifest : {Liberal, Allowing({"READ", "WRITE"}, FALSE, FALSE)},
     view : {"ACTIVE", "FROZEN"}, profile : {Plain}]

Roads ==
    {NoRoad, [NoRoad EXCEPT !.form = "invalid"], [NoRoad EXCEPT !.form = "undeclared"]}
    \cup [form : {"declared"}, recipe : Skill, bound : BOOLEAN, traced : BOOLEAN,
          complete : BOOLEAN, transparent : BOOLEAN, names : {{}, {"network"}}]

RoadActions ==
    {a \in {[Action(type, Proposal(expected, {}, targets, "PROJECT_WRITE")) EXCEPT
                 !.road = road, !.trace.used = used, !.trace.skipped = skipped] :
                type \in {"FILE_READ", "FILE_WRITE"}, expected \in {{}, {"READ", "WRITE"}},
                targets \in {{}, {pin}, {plog}, {pout}, {url1}}, road \in Roads,
                used \in SUBSET Skill, skipped \in SUBSET Skill} :
        a.road.traced => a.road.recipe \in a.trace.used}

RoadQuestion ==
    [action : RoadActions,
     manifest : {[Liberal EXCEPT !.contracts = contracts] : contracts \in SUBSET Skill},
     view : {"ACTIVE"}, profile : {Plain}]

MCCourtQuestion ==
    DeleteQuestion \cup NetworkQuestion \cup PayloadQuestion \cup TypeQuestion
    \cup RoadQuestion

MCInit ==
    /\ Init
    /\ AskInit
    /\ question # NoQuestion => uses = {}

MCNext == question = NoQuestion /\ Next /\ UNCHANGED question

MCSpec == MCInit /\ [][MCNext]_<<loopVars, question>>
=============================================================================
