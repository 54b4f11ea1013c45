-------------------------- MODULE RepositoryChecks ---------------------------
(***************************************************************************)
(* The scripts that decide whether a commit may pass or be deployed:       *)
(*   contract    scripts/check-repo-contract.py                            *)
(*   coverage    scripts/check-coverage.py                                 *)
(*   compose     .github/validate_compose.py                               *)
(*                                                                         *)
(* A run of one of them reads files nobody changes meanwhile: those of a   *)
(* repository that meets every rule, like the one build_good makes in      *)
(* check-repo-contract_test.py, with some changes.  The tests make one     *)
(* change at a time.  Here there are up to MaxChanges, harmful or not, and *)
(* the question is whether a script still sees every one of them.          *)
(***************************************************************************)
EXTENDS Naturals, Sequences, FiniteSets, SequencesExt

CONSTANTS
    MaxChanges,     \* bound: changes in one repository
    NULL

ASSUME ChangesAssumption == MaxChanges \in Nat
ASSUME NullAssumption == NULL \notin 0..2

VARIABLES
    script,
    changes,    \* what differs from the good repository
    pc,         \* the function the script is about to call
    reported,   \* violations noted so far; at the end, those printed
    checked,    \* some rule held (Report.checked > 0)
    exit        \* the exit code, or NULL

inputs == <<script, changes>>
vars == <<inputs, pc, reported, checked, exit>>

-----------------------------------------------------------------------------
(* The rules, each with the changes that break it.  The harmless changes   *)
(* break none.                                                             *)

ContractRule ==
    {"badges", "toc-anchor", "toc", "broken-link", "required-artifact", "gitignore", "orphan-doc",
     "readme", "exemption-violated", "secret", "coc-duplicate", "language-policy", "placeholder"}
ContractBreaks ==
    [r \in ContractRule |->
        CASE r = "badges" -> {"no-license-badge", "no-CI-badge"}
          [] r = "toc-anchor" -> {"dead-anchor", "heading-renamed"}
          [] r = "toc" -> {"no-contents"}
          [] r = "broken-link" ->
                {"broken-link-in-README", "inline-link", "orphan-linked", "broken-link-in-docs",
                 "docs-deleted"}
          [] r = "required-artifact" ->
                {"SECURITY-deleted", "README-deleted", "gitignore-deleted"}
          [] r = "gitignore" -> {"gitignore-deleted", "gitignore-silent"}
          [] r = "orphan-doc" -> {"README-deleted", "orphan-added"}
          [] r = "readme" -> {"README-deleted"}
          [] r = "exemption-violated" -> {"Dockerfile-added"}
          [] r = "secret" -> {"env-committed"}
          [] r = "coc-duplicate" -> {"conduct-twice"}
          [] r = "language-policy" -> {"Cyrillic"}
          [] r = "placeholder" -> {"TODO", "fenced-TODO"}]

CoverageRule ==
    {<<"floors", "none">>, <<"report", "no-files">>, <<"handlers", "absent">>,
     <<"handlers", "no-percentage">>, <<"handlers", "below">>, <<"admin", "below">>}
CoverageBreaks ==
    [r \in CoverageRule |->
        CASE r = <<"floors", "none">> -> {"no-modules-listed"}
          [] r = <<"report", "no-files">> -> {"files-not-an-object"}
          [] r = <<"handlers", "absent">> -> {"handlers-not-imported"}
          [] r = <<"handlers", "no-percentage">> -> {"handlers-without-percentage"}
          [] r = <<"handlers", "below">> -> {"handlers-below"}
          [] r = <<"admin", "below">> -> {"admin-below"}]

\* What ends the validation of a compose file at once, and what is noted.
\* Checks that compare one value and differ in nothing else go by one name:
\* not-hardened is the user, cap_drop, security_opt or tmpfs, not-wired the
\* host gateway, the health check's target, the aliases, an internal network
\* or no name.
Fatal ==
    {"mypy-plugin", "unreadable", "not-YAML", "key-twice", "nested-key-twice", "no-services",
     "no-bot", "no-healthcheck", "environment-a-mapping", "malformed-entry", "variable-twice",
     "variable-missing", "certificate-variable", "certificate-volume", "no-service-network",
     "no-top-network"}
Noted == {"not-hardened", "image-quoted", "public-port", "network-renamed", "not-wired"}
ComposeRule ==
    {"duplicate-key", "image-tag", "image-fallback"}
    \cup Noted \cup (Fatal \ {"key-twice", "nested-key-twice"})
ComposeBreaks ==
    [r \in ComposeRule |->
        CASE r = "duplicate-key" -> {"key-twice", "nested-key-twice"}
          [] r \in {"image-tag", "image-fallback"} -> {"image-falls-back"}
          [] OTHER -> {r}]

Breaks == [contract |-> ContractBreaks, coverage |-> CoverageBreaks, compose |-> ComposeBreaks]

Harmless ==
    [contract |-> {"waiver", "short", "just-long-enough", "one-fifth-Cyrillic", "no-workflows",
                   "heading-marked-up", "fenced-heading", "dead-anchor-in-prose", "inline-TODO",
                   "fenced-link", "orphan-named"},
     coverage |-> {"handlers-at-floor", "handlers-rounded", "backslashes"},
     compose |-> {"no-ports-published", "bot-not-given"}]

\* The changes that keep a script from its data.
Blocks ==
    [contract |-> {"no-arguments", "no-root", "no-contract", "no-type", "unknown-type"},
     coverage |-> {"no-floors", "floors-not-an-object", "no-report", "report-not-JSON"},
     compose |-> {"no-arguments"}]

Harmful(s) == UNION {Breaks[s][r] : r \in DOMAIN Breaks[s]}
Changes == [s \in DOMAIN Breaks |-> Harmful(s) \cup Harmless[s] \cup Blocks[s]]

\* Changes to the text of README.md, and to what a report says of handlers.
OfReadme ==
    {"Cyrillic", "short", "just-long-enough", "one-fifth-Cyrillic", "no-contents", "dead-anchor",
     "heading-renamed", "heading-marked-up", "fenced-heading", "dead-anchor-in-prose",
     "no-license-badge", "no-CI-badge", "TODO", "inline-TODO", "fenced-TODO",
     "broken-link-in-README", "inline-link", "fenced-link", "orphan-linked", "orphan-named"}
OfHandlers ==
    {"handlers-not-imported", "handlers-without-percentage", "handlers-below",
     "handlers-at-floor", "handlers-rounded"}

\* There is a repository with all of the changes: what is gone has no text to
\* be changed, and nothing is changed in two ways.
Possible ==
    /\ "README-deleted" \in changes => changes \cap OfReadme = {}
    /\ "no-contents" \in changes => "dead-anchor" \notin changes
    /\ "docs-deleted" \in changes => "broken-link-in-docs" \notin changes
    /\ "gitignore-deleted" \in changes => "gitignore-silent" \notin changes
    /\ "files-not-an-object" \in changes =>
          changes \cap (OfHandlers \cup {"admin-below", "backslashes"}) = {}
    /\ ~ ({"Cyrillic", "one-fifth-Cyrillic"} \subseteq changes)
    /\ ~ ({"short", "just-long-enough"} \subseteq changes)
    /\ \A c, d \in changes \cap OfHandlers : c = d

TypeOK ==
    /\ script \in DOMAIN Changes
    /\ changes \in SUBSET Changes[script] /\ Cardinality(changes) <= MaxChanges /\ Possible
    /\ reported \subseteq DOMAIN Breaks[script]
    /\ checked \in BOOLEAN
    /\ exit \in {NULL, 0, 1, 2}
    /\ pc = "ended" <=> exit # NULL

Init ==
    /\ script \in DOMAIN Changes
    /\ changes \in {{}} \cup {Range(f) : f \in [1..MaxChanges -> Changes[script]]}
    /\ Possible
    /\ pc = [contract |-> "load_contract", coverage |-> "load_floors", compose |-> "read"][script]
    /\ reported = {}
    /\ checked = FALSE
    /\ exit = NULL

-----------------------------------------------------------------------------
(* The steps all three are made of.                                        *)

Ends(code, printed) ==
    /\ pc' = "ended"
    /\ reported' = printed
    /\ exit' = code
    /\ UNCHANGED <<inputs, checked>>

CannotVerify == Ends(2, {})

GoTo(label) == pc' = label /\ UNCHANGED <<inputs, reported, checked, exit>>

\* A check that applies the rules, notes the broken ones and goes on.
Checks(rules, broken, label) ==
    /\ pc' = label
    /\ reported' = reported \cup broken
    /\ checked' = (checked \/ rules # broken)
    /\ UNCHANGED <<inputs, exit>>

\* value, unless the change was made.
But(change, value, other) == IF change \in changes THEN other ELSE value

\* {x} where there is the change, {x} where there is none; and a rule broken
\* unless it holds.
With(change, x) == IF change \in changes THEN {x} ELSE {}
Without(change, x) == {x} \ With(change, x)
Unless(holds, rule) == IF holds THEN {} ELSE {rule}

-----------------------------------------------------------------------------
(* check-repo-contract.py: the repository                                  *)

GOVERNANCE_DOCS == {"README.md", "LICENSE", "SECURITY.md", "CODE_OF_CONDUCT.md"}
Required == GOVERNANCE_DOCS \cup {".gitignore"}
Exempt == {"Dockerfile"}
Markdown == GOVERNANCE_DOCS \cup {"README-testing.md", "orphan.md"}

Files ==
    (Required \ (With("SECURITY-deleted", "SECURITY.md") \cup With("README-deleted", "README.md")
                 \cup With("gitignore-deleted", ".gitignore")))
    \cup {"README-testing.md"}
    \cup Without("docs-deleted", "docs/testing.md")
    \cup Without("no-workflows", ".github/workflows/ci.yml")
    \cup With("Dockerfile-added", "Dockerfile")
    \cup With("orphan-added", "orphan.md")
    \cup With("env-committed", ".env")
    \cup With("conduct-twice", ".github/CODE_OF_CONDUCT.md")

Line(kind, of) == [kind |-> kind, of |-> of]
Plain == Line("plain", "nothing")

\* README.md, line by line.  "inline" is what is quoted between backticks,
\* "fenced" what stands in a code block, where a comment looks like a
\* heading.  In a heading _ is a space.
Readme ==
    IF "README.md" \notin Files THEN <<>> ELSE
    << Line("heading", "Delivery"),
       But("no-CI-badge", Line("badge", "ci"), Plain),
       But("no-license-badge", Line("badge", "license"), Plain),
       But("no-contents", Line("heading", "Contents"), Plain),
       But("no-contents", Line("anchor-link", "quick-start"), Plain),
       But("no-contents", Line("anchor-link", But("dead-anchor", "extra", "no-such-heading")), Plain),
       Line("heading", But("heading-renamed", "Quick_start", "Start")),
       Line("link", "docs/testing.md"),
       Line("link", "README-testing.md"),
       But("TODO", Plain, Line("placeholder", "TODO")),
       But("inline-TODO", Plain, Line("inline-placeholder", "TODO")),
       But("fenced-TODO", Plain, Line("fenced-placeholder", "TODO")),
       Line("heading", But("heading-marked-up", "Extra", "*Extra*")),
       But("dead-anchor-in-prose", Plain, Line("anchor-link", "other-heading")),
       But("broken-link-in-README", Plain, Line("link", "docs/gone.md")),
       But("inline-link", Plain, Line("inline-link", "docs/gone.md")),
       But("fenced-link", Plain, Line("fenced-link", "docs/gone.md")),
       But("orphan-linked", Plain, Line("link", "orphan.md")),
       But("orphan-named", Plain, Line("fenced-text", "orphan.md")),
       But("fenced-heading", Plain, Line("fenced-heading", "No_such_heading")) >>

Of(kinds) == {Readme[i].of : i \in {j \in DOMAIN Readme : Readme[j].kind \in kinds}}

\* What the regular expressions of the rules take for a heading, a link and
\* a placeholder: placeholders are looked for outside backticks, links
\* outside code blocks.
Heading == {"heading", "fenced-heading"}
Link == {"link", "inline-link"}
Placeholder == {"placeholder", "fenced-placeholder"}

slugify(heading) ==
    CASE heading = "Delivery" -> "delivery"
      [] heading = "Contents" -> "contents"
      [] heading = "Quick_start" -> "quick-start"
      [] heading = "Start" -> "start"
      [] heading \in {"Extra", "*Extra*"} -> "extra"
      [] heading = "No_such_heading" -> "no-such-heading"

-----------------------------------------------------------------------------
(* check-repo-contract.py: the script                                      *)

LoadContract ==
    /\ pc = "load_contract"
    /\ IF "no-arguments" \in changes THEN CannotVerify
       ELSE IF "no-contract" \in changes THEN Ends(1, {})
       ELSE IF "no-root" \in changes THEN CannotVerify
       ELSE IF changes \cap {"no-type", "unknown-type"} # {} THEN Ends(1, {})
       ELSE GoTo("check_required")

CheckRequired ==
    /\ pc = "check_required"
    /\ Checks({"required-artifact", "exemption-violated"},
              Unless(Required \subseteq Files, "required-artifact")
              \cup Unless(Exempt \cap Files = {}, "exemption-violated"),
              "check_readme")

is_cyrillic_heavy(cyrillic, letters) == letters >= 200 /\ 5 * cyrillic > letters

LanguageRule ==
    LET letters == But("short", But("just-long-enough", 1000, 200), 199)
        cyrillic == But("Cyrillic", But("one-fifth-Cyrillic", 0, letters \div 5),
                        letters \div 5 + 1)
    IN Unless(is_cyrillic_heavy(cyrillic, letters) => "waiver" \in changes, "language-policy")

\* The lines between a Contents heading and the next heading.
InToc(i) ==
    \E h \in 1..i : /\ Readme[h] = Line("heading", "Contents")
                   /\ \A j \in (h + 1)..i : Readme[j].kind \notin Heading

\* Mutant: the links of the whole page are taken for those of its Contents.
ContentsRulesOfPage ==
    LET anchors == {slugify(h) : h \in Of(Heading)}
    IN Unless(Of({"anchor-link"}) \subseteq anchors, "toc-anchor")
       \cup Unless("Contents" \in Of({"heading"}), "toc")

ContentsRules ==
    LET anchors == {slugify(h) : h \in Of(Heading)}
        links == {i \in DOMAIN Readme : InToc(i) /\ Readme[i].kind = "anchor-link"}
    IN Unless(\A i \in links : Readme[i].of \in anchors, "toc-anchor")
       \cup Unless("Contents" \in Of({"heading"}), "toc")

BadgeRule ==
    LET wanted == {"license"} \cup (IF ".github/workflows/ci.yml" \in Files THEN {"ci"} ELSE {})
    IN Unless(wanted \subseteq Of({"badge"}), "badges")

PlaceholderRule == Unless(Of(Placeholder) = {}, "placeholder")

CheckReadme ==
    /\ pc = "check_readme"
    /\ IF "README.md" \notin Files
       THEN Checks({"readme"}, {"readme"}, "check_links")
       ELSE Checks({"language-policy", "toc-anchor", "toc", "badges", "placeholder"},
                   LanguageRule \cup ContentsRules \cup BadgeRule \cup PlaceholderRule,
                   "check_links")

\* The links of README.md and of docs/testing.md.
CheckLinks ==
    LET ofDocs == IF "docs/testing.md" \in Files
                  THEN {But("broken-link-in-docs", "README-testing.md", "gone.md")} ELSE {}
        links == Of(Link) \cup ofDocs
    IN /\ pc = "check_links"
       /\ Checks({"broken-link"}, Unless(links \subseteq Files, "broken-link"), "check_orphans")

\* A document is linked when its name occurs anywhere in README.md.
CheckOrphans ==
    LET occurring == {Readme[i].of : i \in DOMAIN Readme} IN
    /\ pc = "check_orphans"
    /\ Checks({"orphan-doc"},
              Unless((Markdown \cap Files) \ GOVERNANCE_DOCS \subseteq occurring, "orphan-doc"),
              "check_coc_single_home")

CheckCocSingleHome ==
    /\ pc = "check_coc_single_home"
    /\ Checks({"coc-duplicate"},
              Unless(~ ({"CODE_OF_CONDUCT.md", ".github/CODE_OF_CONDUCT.md"} \subseteq Files),
                     "coc-duplicate"),
              "check_secrets")

CheckSecrets ==
    /\ pc = "check_secrets"
    /\ Checks({"secret", "gitignore"},
              Unless(".env" \notin Files, "secret")
              \cup Unless(".gitignore" \in Files /\ "gitignore-silent" \notin changes, "gitignore"),
              "contract-verdict")

\* Mutant: the exit code is the number of violations.
ContractVerdictByCount ==
    /\ pc = "contract-verdict"
    /\ Ends(IF checked THEN Cardinality(reported) ELSE 2, reported)

ContractVerdict ==
    /\ pc = "contract-verdict"
    /\ Ends(IF reported # {} THEN 1 ELSE IF checked THEN 0 ELSE 2, reported)

-----------------------------------------------------------------------------
(* check-coverage.py                                                       *)

\* Percentages are counted in units of the tolerance, ten to the percent (the
\* tolerance is 1e-9 of a percent in the code).
Floors == [handlers |-> 300, admin |-> 600]
TOLERANCE == 1

\* What pytest measured of the modules it imported.
Imported == {"admin", "service"} \cup Without("handlers-not-imported", "handlers")
Percent ==
    [m \in Imported \ With("handlers-without-percentage", "handlers") |->
        CASE m = "handlers" ->
                But("handlers-below",
                    But("handlers-rounded", But("handlers-at-floor", 310, 300), 299), 298)
          [] m = "admin" -> But("admin-below", 750, 590)
          [] OTHER -> 1000]

\* The report names modules with the separator of the system that measured.
Path(separator, m) == <<separator, m>>
ReportFiles == {Path(But("backslashes", "/", "\\"), m) : m \in Imported}

normalise(path) == Path("/", path[2])

LoadFloors ==
    /\ pc = "load_floors"
    /\ IF changes \cap {"no-floors", "floors-not-an-object"} # {}
       THEN CannotVerify ELSE GoTo("load_report")

LoadReport ==
    /\ pc = "load_report"
    /\ IF changes \cap {"no-report", "report-not-JSON"} # {} THEN CannotVerify ELSE GoTo("check")

\* Mutant: a module the report does not name is skipped.
ProblemIfMeasured(m) ==
    IF Path("/", m) \notin {normalise(p) : p \in ReportFiles} THEN {}
    ELSE IF m \in Imported \ DOMAIN Percent THEN {<<m, "no-percentage">>}
    ELSE Unless(Percent[m] + TOLERANCE >= Floors[m], <<m, "below">>)

Problem(m) ==
    IF Path("/", m) \notin {normalise(p) : p \in ReportFiles} THEN {<<m, "absent">>}
    ELSE IF m \in Imported \ DOMAIN Percent THEN {<<m, "no-percentage">>}
    ELSE Unless(Percent[m] + TOLERANCE >= Floors[m], <<m, "below">>)

CheckFloors ==
    LET problems ==
          IF "no-modules-listed" \in changes THEN {<<"floors", "none">>}
          ELSE IF "files-not-an-object" \in changes THEN {<<"report", "no-files">>}
          ELSE UNION {Problem(m) : m \in DOMAIN Floors}
    IN /\ pc = "check"
       /\ Ends(IF problems = {} THEN 0 ELSE 1, problems)

-----------------------------------------------------------------------------
(* validate_compose.py: the file                                           *)

REQUIRED_SERVICE_KEYS == {"image", "environment", "ports", "healthcheck", "networks"}

\* The keys of the file's mappings, outermost first, repetitions and all.
Mappings ==
    << <<"name", "services", "networks">> \o But("key-twice", <<>>, <<"networks">>),
       SetToSeq(REQUIRED_SERVICE_KEYS \ With("no-healthcheck", "healthcheck")),
       <<"test", "interval">> \o But("nested-key-twice", <<>>, <<"test">>) >>

EXPECTED_ENV == {"TELEGRAM_BOT_TOKEN", "WEBHOOK_URL", "ADMIN_IDS"}
FORBIDDEN_ENV == {"WEBHOOK_CERT_PATH"}
ASSUME VariableAssumption == NULL \notin EXPECTED_ENV \cup FORBIDDEN_ENV

\* The variables the entries of the list name; NULL for one that is malformed.
environment ==
    SetToSeq(EXPECTED_ENV \ With("variable-missing", "ADMIN_IDS"))
    \o But("malformed-entry", <<>>, <<NULL>>)
    \o But("variable-twice", <<>>, <<"WEBHOOK_URL">>)
    \o But("certificate-variable", <<>>, <<"WEBHOOK_CERT_PATH">>)

\* What the reference to the image contains, where the ports are bound, and
\* the network's name, which is for one bot.
image ==
    {But("image-falls-back", "${IMAGE_TAG:?", "${IMAGE_TAG:-")} \cup With("image-quoted", "quote")
ports == Without("no-ports-published", "127.0.0.1") \cup With("public-port", "0.0.0.0")
net_name == But("network-renamed", "botkit_store", "botkit_other")

-----------------------------------------------------------------------------
(* validate_compose.py: the script                                         *)

Stops(problem) == Ends(1, {problem})

Read ==
    /\ pc = "read"
    /\ IF "no-arguments" \in changes THEN CannotVerify
       ELSE IF "mypy-plugin" \in changes THEN Stops("mypy-plugin")
       ELSE IF "unreadable" \in changes THEN Stops("unreadable")
       ELSE IF "not-YAML" \in changes THEN Stops("not-YAML")
       ELSE GoTo("check_duplicates")

\* Keys that stand twice in one mapping, however deep it is nested.
CheckDuplicates ==
    /\ pc = "check_duplicates"
    /\ IF \E i \in DOMAIN Mappings : ~ IsInjective(Mappings[i])
       THEN Stops("duplicate-key") ELSE GoTo("validate")

\* The labels of the checks that fail without stopping the validation.  The
\* network's name is compared with the bot's, if --bot= says which bot it is.
Notes ==
    (changes \cap {"not-hardened", "not-wired"})
    \cup Unless("${IMAGE_TAG:?" \in image, "image-tag")
    \cup Unless("${IMAGE_TAG:-" \notin image, "image-fallback")
    \cup Unless("quote" \notin image, "image-quoted")
    \cup Unless(ports \subseteq {"127.0.0.1"}, "public-port")
    \cup Unless("bot-not-given" \in changes \/ net_name = "botkit_store", "network-renamed")

\* What was noted is printed only when nothing stops the validation.
Validate ==
    LET env_keys == Range(environment) IN
    /\ pc = "validate"
    /\ IF "no-services" \in changes THEN Stops("no-services")
       ELSE IF "no-bot" \in changes THEN Stops("no-bot")
       ELSE IF ~ (REQUIRED_SERVICE_KEYS \subseteq Range(Mappings[2])) THEN Stops("no-healthcheck")
       ELSE IF "environment-a-mapping" \in changes THEN Stops("environment-a-mapping")
       ELSE IF NULL \in env_keys THEN Stops("malformed-entry")
       ELSE IF ~ IsInjective(environment) THEN Stops("variable-twice")
       ELSE IF ~ (EXPECTED_ENV \subseteq env_keys) THEN Stops("variable-missing")
       ELSE IF FORBIDDEN_ENV \cap env_keys # {} THEN Stops("certificate-variable")
       ELSE IF "certificate-volume" \in changes THEN Stops("certificate-volume")
       ELSE IF "no-service-network" \in changes THEN Stops("no-service-network")
       ELSE IF "no-top-network" \in changes THEN Stops("no-top-network")
       ELSE Ends(IF Notes = {} THEN 0 ELSE 1, Notes)

-----------------------------------------------------------------------------
Next ==
    \/ LoadContract
    \/ CheckRequired
    \/ CheckReadme
    \/ CheckLinks
    \/ CheckOrphans
    \/ CheckCocSingleHome
    \/ CheckSecrets
    \/ ContractVerdict
    \/ LoadFloors
    \/ LoadReport
    \/ CheckFloors
    \/ Read
    \/ CheckDuplicates
    \/ Validate

Spec == Init /\ [][Next]_vars

-----------------------------------------------------------------------------
(* Properties                                                              *)

\* Changes that break nothing in this repository, because what their rule is
\* about is not there or the scripts say that it does not apply: a waiver, a
\* page too short to be judged, no workflow to have a badge for, no link to
\* the heading or the document, no floor for the module, no bot to name the
\* network after.
Moot ==
    {c \in changes :
        \/ c = "Cyrillic" /\ changes \cap {"waiver", "short"} # {}
        \/ c = "no-CI-badge" /\ "no-workflows" \in changes
        \/ c = "heading-renamed" /\ "no-contents" \in changes
        \/ c = "docs-deleted" /\ "README-deleted" \in changes
        \/ c = "orphan-linked" /\ "orphan-added" \in changes
        \/ c = "orphan-added" /\ "orphan-linked" \in changes
        \/ c \in OfHandlers \cup {"admin-below"} /\ "no-modules-listed" \in changes
        \/ c = "network-renamed" /\ "bot-not-given" \in changes}

\* What breaks a rule and is not seen, against the scripts' own words: a dead
\* anchor for which a comment in a code block passes as the heading, a
\* document that README.md names in a code block and does not link, a report
\* without files when the floors are found to be empty first.
Missed ==
    {c \in changes :
        \/ c = "dead-anchor" /\ "fenced-heading" \in changes
        \/ c = "orphan-added" /\ "orphan-named" \in changes
        \/ c = "files-not-an-object" /\ "no-modules-listed" \in changes}

ReachedData == changes \cap Blocks[script] = {}
BrokenBy(made) == {r \in DOMAIN Breaks[script] : Breaks[script][r] \cap made # {}}
Broken == BrokenBy(changes \ Moot)
Found == BrokenBy(changes \ (Moot \cup Missed))

\* "Contract violated -- every violation is printed, not just the first"
\* (check-repo-contract.py), "Contents links must point at headings that
\* exist", "is not linked from README.md": whatever breaks a rule is in the
\* report.  It is not: see Missed.  The script then even says "pass".
EveryViolationIsPrinted ==
    script = "contract" /\ exit # NULL /\ ReachedData => Broken \subseteq reported

\* A script says "pass" only of a repository it could read and in which every
\* harmful change is moot or one of the three that Missed lists; nothing else
\* that changes along with it makes a script blind.  The exit code is all
\* that CI and the deployment look at, and "green from a check that did not
\* run is worse than a red one" (check-repo-contract.py).
GreenIsEarned ==
    exit = 0 => ReachedData /\ changes \cap Harmful(script) \subseteq Moot \cup Missed

\* The report names every broken rule that a change not in Missed breaks, and
\* nothing else: one violation hides no other, but in these cases and in a
\* compose file, of which a fatal problem is reported alone, as the first of
\* them in the order of the checks, and what was noted before it is dropped.
ReportIsExact ==
    exit # NULL /\ ReachedData =>
        /\ reported \subseteq Found
        /\ IF script = "compose" /\ changes \cap Fatal # {}
           THEN Cardinality(reported) = 1 /\ exit = 1
           ELSE reported = Found /\ exit = (IF Found = {} THEN 0 ELSE 1)
=============================================================================
