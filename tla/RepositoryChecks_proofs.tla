------------------------ MODULE RepositoryChecks_proofs -----------------------
(***************************************************************************)
(* Proofs about RepositoryChecks, for repositories that differ from the    *)
(* good one in any number of ways: what the functions of the scripts note  *)
(* is what the changes break.                                              *)
(***************************************************************************)
EXTENDS RepositoryChecks, TLAPS, FiniteSetTheorems

Made(c) == c \in changes

\* The changes that do not show: those that break nothing here, and those
\* that are missed.
Hidden == Moot \cup Missed

-----------------------------------------------------------------------------
(* check-repo-contract.py: what the changes break.                         *)

\* A rule is found broken by a change that was made and does show.
LEMMA FoundRule ==
    ASSUME NEW r \in DOMAIN Breaks[script]
    PROVE  r \in Found <=> \E c \in Breaks[script][r] : Made(c) /\ c \notin Hidden
  BY DEF Found, BrokenBy, Made, Hidden

ContractHidden(c) ==
    \/ c = "Cyrillic" /\ (Made("waiver") \/ Made("short"))
    \/ c = "no-CI-badge" /\ Made("no-workflows")
    \/ c = "heading-renamed" /\ Made("no-contents")
    \/ c = "docs-deleted" /\ Made("README-deleted")
    \/ c = "orphan-linked" /\ Made("orphan-added")
    \/ c = "orphan-added" /\ (Made("orphan-linked") \/ Made("orphan-named"))
    \/ c = "dead-anchor" /\ Made("fenced-heading")

LEMMA CoverageHarmful ==
    Harmful("coverage") = {"no-modules-listed", "files-not-an-object", "handlers-not-imported",
                           "handlers-without-percentage", "handlers-below", "admin-below"}
  BY DEF CoverageBreaks, CoverageRule, Harmful, Breaks

\* What hides a change of the repository, of all that is said of the three
\* scripts.
LEMMA HiddenInContract ==
    ASSUME NEW r \in ContractRule, NEW c \in ContractBreaks[r], Made(c)
    PROVE  c \in Hidden <=> ContractHidden(c)
  <1>1. /\ c \notin OfHandlers /\ c # "admin-below" /\ c # "files-not-an-object"
        /\ c # "network-renamed"
    BY DEF ContractBreaks, ContractRule, OfHandlers
  <1>2. Made("waiver") \/ Made("short") <=> changes \cap {"waiver", "short"} # {}
    BY DEF Made
  <1>3. c \in Moot <=>
           \/ c = "Cyrillic" /\ (Made("waiver") \/ Made("short"))
           \/ c = "no-CI-badge" /\ Made("no-workflows")
           \/ c = "heading-renamed" /\ Made("no-contents")
           \/ c = "docs-deleted" /\ Made("README-deleted")
           \/ c = "orphan-linked" /\ Made("orphan-added")
           \/ c = "orphan-added" /\ Made("orphan-linked")
    BY <1>1, <1>2 DEF Moot, Made
  <1>4. c \in Missed <=>
           \/ c = "dead-anchor" /\ Made("fenced-heading")
           \/ c = "orphan-added" /\ Made("orphan-named")
    BY <1>1 DEF Missed, Made
  <1> QED
    BY <1>3, <1>4 DEF Hidden, ContractHidden

LEMMA ContractFound ==
    ASSUME script = "contract", NEW r \in ContractRule
    PROVE  r \in Found <=> \E c \in ContractBreaks[r] : Made(c) /\ ~ ContractHidden(c)
  <1>1. Breaks[script] = ContractBreaks /\ DOMAIN ContractBreaks = ContractRule
    BY DEF Breaks, ContractBreaks
  <1> QED
    BY <1>1, FoundRule, HiddenInContract

LEMMA ContractTable ==
    /\ ContractBreaks["required-artifact"] =
          {"SECURITY-deleted", "README-deleted", "gitignore-deleted"}
    /\ ContractBreaks["exemption-violated"] = {"Dockerfile-added"}
    /\ ContractBreaks["gitignore"] = {"gitignore-deleted", "gitignore-silent"}
    /\ ContractBreaks["secret"] = {"env-committed"}
    /\ ContractBreaks["coc-duplicate"] = {"conduct-twice"}
    /\ ContractBreaks["orphan-doc"] = {"README-deleted", "orphan-added"}
    /\ ContractBreaks["broken-link"] =
          {"broken-link-in-README", "inline-link", "orphan-linked", "broken-link-in-docs",
           "docs-deleted"}
    /\ ContractBreaks["readme"] = {"README-deleted"}
    /\ ContractBreaks["language-policy"] = {"Cyrillic"}
    /\ ContractBreaks["toc-anchor"] = {"dead-anchor", "heading-renamed"}
    /\ ContractBreaks["toc"] = {"no-contents"}
    /\ ContractBreaks["badges"] = {"no-license-badge", "no-CI-badge"}
    /\ ContractBreaks["placeholder"] = {"TODO", "fenced-TODO"}
  BY DEF ContractBreaks, ContractRule

LEMMA HiddenTable ==
    /\ ContractHidden("Cyrillic") <=> Made("waiver") \/ Made("short")
    /\ ContractHidden("no-CI-badge") <=> Made("no-workflows")
    /\ ContractHidden("heading-renamed") <=> Made("no-contents")
    /\ ContractHidden("docs-deleted") <=> Made("README-deleted")
    /\ ContractHidden("orphan-linked") <=> Made("orphan-added")
    /\ ContractHidden("orphan-added") <=> Made("orphan-linked") \/ Made("orphan-named")
    /\ ContractHidden("dead-anchor") <=> Made("fenced-heading")
    /\ ~ ContractHidden("SECURITY-deleted")
    /\ ~ ContractHidden("README-deleted")
    /\ ~ ContractHidden("gitignore-deleted")
    /\ ~ ContractHidden("Dockerfile-added")
    /\ ~ ContractHidden("gitignore-silent")
    /\ ~ ContractHidden("env-committed")
    /\ ~ ContractHidden("conduct-twice")
    /\ ~ ContractHidden("broken-link-in-README")
    /\ ~ ContractHidden("inline-link")
    /\ ~ ContractHidden("broken-link-in-docs")
    /\ ~ ContractHidden("no-contents")
    /\ ~ ContractHidden("no-license-badge")
    /\ ~ ContractHidden("TODO")
    /\ ~ ContractHidden("fenced-TODO")
  BY DEF ContractHidden

\* Every rule, with the changes that have it found broken.
LEMMA FoundContractRules ==
    ASSUME script = "contract"
    PROVE  /\ "required-artifact" \in Found <=>
                 Made("SECURITY-deleted") \/ Made("README-deleted") \/ Made("gitignore-deleted")
           /\ "exemption-violated" \in Found <=> Made("Dockerfile-added")
           /\ "gitignore" \in Found <=> Made("gitignore-deleted") \/ Made("gitignore-silent")
           /\ "secret" \in Found <=> Made("env-committed")
           /\ "coc-duplicate" \in Found <=> Made("conduct-twice")
           /\ "orphan-doc" \in Found <=>
                 \/ Made("README-deleted")
                 \/ Made("orphan-added") /\ ~ Made("orphan-linked") /\ ~ Made("orphan-named")
           /\ "broken-link" \in Found <=>
                 \/ Made("broken-link-in-README") \/ Made("inline-link")
                 \/ Made("broken-link-in-docs")
                 \/ Made("orphan-linked") /\ ~ Made("orphan-added")
                 \/ Made("docs-deleted") /\ ~ Made("README-deleted")
           /\ "readme" \in Found <=> Made("README-deleted")
           /\ "language-policy" \in Found <=>
                 Made("Cyrillic") /\ ~ Made("waiver") /\ ~ Made("short")
           /\ "toc-anchor" \in Found <=>
                 \/ Made("heading-renamed") /\ ~ Made("no-contents")
                 \/ Made("dead-anchor") /\ ~ Made("fenced-heading")
           /\ "toc" \in Found <=> Made("no-contents")
           /\ "badges" \in Found <=>
                 Made("no-license-badge") \/ (Made("no-CI-badge") /\ ~ Made("no-workflows"))
           /\ "placeholder" \in Found <=> Made("TODO") \/ Made("fenced-TODO")
  <1>1. \A r \in ContractRule :
           r \in Found <=> \E c \in ContractBreaks[r] : Made(c) /\ ~ ContractHidden(c)
    BY ContractFound
  <1>2. "required-artifact" \in Found <=>
           Made("SECURITY-deleted") \/ Made("README-deleted") \/ Made("gitignore-deleted")
    <2>1. "required-artifact" \in ContractRule
      BY DEF ContractRule
    <2>2. ContractBreaks["required-artifact"] =
             {"SECURITY-deleted", "README-deleted", "gitignore-deleted"}
      BY ContractTable
    <2>3. "required-artifact" \in Found <=>
             \E c \in {"SECURITY-deleted", "README-deleted", "gitignore-deleted"} :
                Made(c) /\ ~ ContractHidden(c)
      BY <1>1, <2>1, <2>2
    <2> QED
      BY <2>3, HiddenTable
  <1>3. "exemption-violated" \in Found <=> Made("Dockerfile-added")
    <2>1. "exemption-violated" \in ContractRule
      BY DEF ContractRule
    <2>2. ContractBreaks["exemption-violated"] = {"Dockerfile-added"}
      BY ContractTable
    <2>3. "exemption-violated" \in Found <=>
             \E c \in {"Dockerfile-added"} : Made(c) /\ ~ ContractHidden(c)
      BY <1>1, <2>1, <2>2
    <2> QED
      BY <2>3, HiddenTable
  <1>4. "gitignore" \in Found <=> Made("gitignore-deleted") \/ Made("gitignore-silent")
    <2>1. "gitignore" \in ContractRule
      BY DEF ContractRule
    <2>2. ContractBreaks["gitignore"] = {"gitignore-deleted", "gitignore-silent"}
      BY ContractTable
    <2>3. "gitignore" \in Found <=>
             \E c \in {"gitignore-deleted", "gitignore-silent"} :
                Made(c) /\ ~ ContractHidden(c)
      BY <1>1, <2>1, <2>2
    <2> QED
      BY <2>3, HiddenTable
  <1>5. "secret" \in Found <=> Made("env-committed")
    <2>1. "secret" \in ContractRule
      BY DEF ContractRule
    <2>2. ContractBreaks["secret"] = {"env-committed"}
      BY ContractTable
    <2>3. "secret" \in Found <=> \E c \in {"env-committed"} : Made(c) /\ ~ ContractHidden(c)
      BY <1>1, <2>1, <2>2
    <2> QED
      BY <2>3, HiddenTable
  <1>6. "coc-duplicate" \in Found <=> Made("conduct-twice")
    <2>1. "coc-duplicate" \in ContractRule
      BY DEF ContractRule
    <2>2. ContractBreaks["coc-duplicate"] = {"conduct-twice"}
      BY ContractTable
    <2>3. "coc-duplicate" \in Found <=>
             \E c \in {"conduct-twice"} : Made(c) /\ ~ ContractHidden(c)
      BY <1>1, <2>1, <2>2
    <2> QED
      BY <2>3, HiddenTable
  <1>7. "orphan-doc" \in Found <=>
           \/ Made("README-deleted")
           \/ Made("orphan-added") /\ ~ Made("orphan-linked") /\ ~ Made("orphan-named")
    <2>1. "orphan-doc" \in ContractRule
      BY DEF ContractRule
    <2>2. ContractBreaks["orphan-doc"] = {"README-deleted", "orphan-added"}
      BY ContractTable
    <2>3. "orphan-doc" \in Found <=>
             \E c \in {"README-deleted", "orphan-added"} : Made(c) /\ ~ ContractHidden(c)
      BY <1>1, <2>1, <2>2
    <2> QED
      BY <2>3, HiddenTable
  <1>8. "broken-link" \in Found <=>
           \/ Made("broken-link-in-README") \/ Made("inline-link")
           \/ Made("broken-link-in-docs")
           \/ Made("orphan-linked") /\ ~ Made("orphan-added")
           \/ Made("docs-deleted") /\ ~ Made("README-deleted")
    <2>1. "broken-link" \in ContractRule
      BY DEF ContractRule
    <2>2. ContractBreaks["broken-link"] =
             {"broken-link-in-README", "inline-link", "orphan-linked",
              "broken-link-in-docs", "docs-deleted"}
      BY ContractTable
    <2>3. "broken-link" \in Found <=>
             \E c \in {"broken-link-in-README", "inline-link", "orphan-linked",
              "broken-link-in-docs", "docs-deleted"} :
                Made(c) /\ ~ ContractHidden(c)
      BY <1>1, <2>1, <2>2
    <2> QED
      BY <2>3, HiddenTable
  <1>9. "readme" \in Found <=> Made("README-deleted")
    <2>1. "readme" \in ContractRule
      BY DEF ContractRule
    <2>2. ContractBreaks["readme"] = {"README-deleted"}
      BY ContractTable
    <2>3. "readme" \in Found <=> \E c \in {"README-deleted"} : Made(c) /\ ~ ContractHidden(c)
      BY <1>1, <2>1, <2>2
    <2> QED
      BY <2>3, HiddenTable
  <1>10. "language-policy" \in Found <=>
           Made("Cyrillic") /\ ~ Made("waiver") /\ ~ Made("short")
    <2>1. "language-policy" \in ContractRule
      BY DEF ContractRule
    <2>2. ContractBreaks["language-policy"] = {"Cyrillic"}
      BY ContractTable
    <2>3. "language-policy" \in Found <=>
             \E c \in {"Cyrillic"} : Made(c) /\ ~ ContractHidden(c)
      BY <1>1, <2>1, <2>2
    <2> QED
      BY <2>3, HiddenTable
  <1>11. "toc-anchor" \in Found <=>
           \/ Made("heading-renamed") /\ ~ Made("no-contents")
           \/ Made("dead-anchor") /\ ~ Made("fenced-heading")
    <2>1. "toc-anchor" \in ContractRule
      BY DEF ContractRule
    <2>2. ContractBreaks["toc-anchor"] = {"dead-anchor", "heading-renamed"}
      BY ContractTable
    <2>3. "toc-anchor" \in Found <=>
             \E c \in {"dead-anchor", "heading-renamed"} : Made(c) /\ ~ ContractHidden(c)
      BY <1>1, <2>1, <2>2
    <2> QED
      BY <2>3, HiddenTable
  <1>12. "toc" \in Found <=> Made("no-contents")
    <2>1. "toc" \in ContractRule
      BY DEF ContractRule
    <2>2. ContractBreaks["toc"] = {"no-contents"}
      BY ContractTable
    <2>3. "toc" \in Found <=> \E c \in {"no-contents"} : Made(c) /\ ~ ContractHidden(c)
      BY <1>1, <2>1, <2>2
    <2> QED
      BY <2>3, HiddenTable
  <1>13. "badges" \in Found <=>
           Made("no-license-badge") \/ (Made("no-CI-badge") /\ ~ Made("no-workflows"))
    <2>1. "badges" \in ContractRule
      BY DEF ContractRule
    <2>2. ContractBreaks["badges"] = {"no-license-badge", "no-CI-badge"}
      BY ContractTable
    <2>3. "badges" \in Found <=>
             \E c \in {"no-license-badge", "no-CI-badge"} : Made(c) /\ ~ ContractHidden(c)
      BY <1>1, <2>1, <2>2
    <2> QED
      BY <2>3, HiddenTable
  <1>14. "placeholder" \in Found <=> Made("TODO") \/ Made("fenced-TODO")
    <2>1. "placeholder" \in ContractRule
      BY DEF ContractRule
    <2>2. ContractBreaks["placeholder"] = {"TODO", "fenced-TODO"}
      BY ContractTable
    <2>3. "placeholder" \in Found <=>
             \E c \in {"TODO", "fenced-TODO"} : Made(c) /\ ~ ContractHidden(c)
      BY <1>1, <2>1, <2>2
    <2> QED
      BY <2>3, HiddenTable
  <1> QED
    BY <1>2, <1>3, <1>4, <1>5, <1>6, <1>7, <1>8, <1>9, <1>10, <1>11, <1>12, <1>13, <1>14

\* A page that was deleted has no text to be changed.
LEMMA NoPage ==
    ASSUME Possible, Made("README-deleted"), NEW c \in OfReadme
    PROVE  ~ Made(c)
  BY DEF Possible, Made

-----------------------------------------------------------------------------
(* check-repo-contract.py: what its functions find.                        *)

\* The files there are.
LEMMA FileFacts ==
    \A f :
       f \in Files <=>
          \/ f \in {"LICENSE", "CODE_OF_CONDUCT.md", "README-testing.md"}
          \/ f = "README.md" /\ ~ Made("README-deleted")
          \/ f = "SECURITY.md" /\ ~ Made("SECURITY-deleted")
          \/ f = ".gitignore" /\ ~ Made("gitignore-deleted")
          \/ f = "docs/testing.md" /\ ~ Made("docs-deleted")
          \/ f = ".github/workflows/ci.yml" /\ ~ Made("no-workflows")
          \/ f = "Dockerfile" /\ Made("Dockerfile-added")
          \/ f = "orphan.md" /\ Made("orphan-added")
          \/ f = ".env" /\ Made("env-committed")
          \/ f = ".github/CODE_OF_CONDUCT.md" /\ Made("conduct-twice")
  <1>1. \A c, x, f : f \in With(c, x) <=> f = x /\ Made(c)
    BY DEF With, Made
  <1>2. \A c, x, f : f \in Without(c, x) <=> f = x /\ ~ Made(c)
    BY DEF Without, With, Made
  <1>3. \A f : f \in Required <=> f \in {"README.md", "LICENSE", "SECURITY.md",
                                         "CODE_OF_CONDUCT.md", ".gitignore"}
    BY DEF Required, GOVERNANCE_DOCS
  <1> QED
    BY <1>1, <1>2, <1>3 DEF Files

\* README.md when it is there, line by line.
LEMMA ReadmeLines ==
    ASSUME "README.md" \in Files
    PROVE  /\ DOMAIN Readme = 1..20
           /\ Readme[1] = Line("heading", "Delivery")
           /\ Readme[2] = IF Made("no-CI-badge") THEN Plain ELSE Line("badge", "ci")
           /\ Readme[3] = IF Made("no-license-badge") THEN Plain ELSE Line("badge", "license")
           /\ Readme[4] = IF Made("no-contents") THEN Plain ELSE Line("heading", "Contents")
           /\ Readme[5] = IF Made("no-contents") THEN Plain
                          ELSE Line("anchor-link", "quick-start")
           /\ Readme[6] = IF Made("no-contents") THEN Plain
                          ELSE IF Made("dead-anchor") THEN Line("anchor-link", "no-such-heading")
                          ELSE Line("anchor-link", "extra")
           /\ Readme[7] = IF Made("heading-renamed") THEN Line("heading", "Start")
                          ELSE Line("heading", "Quick_start")
           /\ Readme[8] = Line("link", "docs/testing.md")
           /\ Readme[9] = Line("link", "README-testing.md")
           /\ Readme[10] = IF Made("TODO") THEN Line("placeholder", "TODO") ELSE Plain
           /\ Readme[11] = IF Made("inline-TODO") THEN Line("inline-placeholder", "TODO")
                           ELSE Plain
           /\ Readme[12] = IF Made("fenced-TODO") THEN Line("fenced-placeholder", "TODO")
                           ELSE Plain
           /\ Readme[13] = IF Made("heading-marked-up") THEN Line("heading", "*Extra*")
                           ELSE Line("heading", "Extra")
           /\ Readme[14] = IF Made("dead-anchor-in-prose") THEN Line("anchor-link", "other-heading")
                           ELSE Plain
           /\ Readme[15] = IF Made("broken-link-in-README") THEN Line("link", "docs/gone.md")
                           ELSE Plain
           /\ Readme[16] = IF Made("inline-link") THEN Line("inline-link", "docs/gone.md")
                           ELSE Plain
           /\ Readme[17] = IF Made("fenced-link") THEN Line("fenced-link", "docs/gone.md")
                           ELSE Plain
           /\ Readme[18] = IF Made("orphan-linked") THEN Line("link", "orphan.md") ELSE Plain
           /\ Readme[19] = IF Made("orphan-named") THEN Line("fenced-text", "orphan.md")
                           ELSE Plain
           /\ Readme[20] = IF Made("fenced-heading") THEN Line("fenced-heading", "No_such_heading")
                           ELSE Plain
  BY DEF Readme, But, Made

\* One line of README.md, as what the rules look for may be there.
LEMMA LineOf ==
    ASSUME "README.md" \in Files, NEW kinds, NEW x
    PROVE  x \in Of(kinds) <=> \E i \in 1..20 : Readme[i].kind \in kinds /\ Readme[i].of = x
  BY ReadmeLines DEF Of

\* What there is of some kinds, by the changes that were made.
LEMMA OfKinds ==
    ASSUME "README.md" \in Files, NEW kinds, "plain" \notin kinds, NEW x
    PROVE  x \in Of(kinds) <=>
             \/ "heading" \in kinds /\ x = "Delivery"
             \/ ~ Made("no-CI-badge") /\ "badge" \in kinds /\ x = "ci"
             \/ ~ Made("no-license-badge") /\ "badge" \in kinds /\ x = "license"
             \/ ~ Made("no-contents") /\ "heading" \in kinds /\ x = "Contents"
             \/ ~ Made("no-contents") /\ "anchor-link" \in kinds /\ x = "quick-start"
             \/ /\ ~ Made("no-contents") /\ Made("dead-anchor")
                /\ "anchor-link" \in kinds /\ x = "no-such-heading"
             \/ /\ ~ Made("no-contents") /\ ~ Made("dead-anchor")
                /\ "anchor-link" \in kinds /\ x = "extra"
             \/ ~ Made("heading-renamed") /\ "heading" \in kinds /\ x = "Quick_start"
             \/ Made("heading-renamed") /\ "heading" \in kinds /\ x = "Start"
             \/ "link" \in kinds /\ x = "docs/testing.md"
             \/ "link" \in kinds /\ x = "README-testing.md"
             \/ Made("TODO") /\ "placeholder" \in kinds /\ x = "TODO"
             \/ Made("inline-TODO") /\ "inline-placeholder" \in kinds /\ x = "TODO"
             \/ Made("fenced-TODO") /\ "fenced-placeholder" \in kinds /\ x = "TODO"
             \/ ~ Made("heading-marked-up") /\ "heading" \in kinds /\ x = "Extra"
             \/ Made("heading-marked-up") /\ "heading" \in kinds /\ x = "*Extra*"
             \/ Made("dead-anchor-in-prose") /\ "anchor-link" \in kinds /\ x = "other-heading"
             \/ Made("broken-link-in-README") /\ "link" \in kinds /\ x = "docs/gone.md"
             \/ Made("inline-link") /\ "inline-link" \in kinds /\ x = "docs/gone.md"
             \/ Made("fenced-link") /\ "fenced-link" \in kinds /\ x = "docs/gone.md"
             \/ Made("orphan-linked") /\ "link" \in kinds /\ x = "orphan.md"
             \/ Made("orphan-named") /\ "fenced-text" \in kinds /\ x = "orphan.md"
             \/ Made("fenced-heading") /\ "fenced-heading" \in kinds /\ x = "No_such_heading"
  <1> DEFINE Is(i) == Readme[i].kind \in kinds /\ Readme[i].of = x
  <1>1. Is(1) <=>
           "heading" \in kinds /\ x = "Delivery"
    BY ReadmeLines DEF Line, Plain
  <1>2. Is(2) <=>
           ~ Made("no-CI-badge") /\ "badge" \in kinds /\ x = "ci"
    BY ReadmeLines DEF Line, Plain
  <1>3. Is(3) <=>
           ~ Made("no-license-badge") /\ "badge" \in kinds /\ x = "license"
    BY ReadmeLines DEF Line, Plain
  <1>4. Is(4) <=>
           ~ Made("no-contents") /\ "heading" \in kinds /\ x = "Contents"
    BY ReadmeLines DEF Line, Plain
  <1>5. Is(5) <=>
           ~ Made("no-contents") /\ "anchor-link" \in kinds /\ x = "quick-start"
    BY ReadmeLines DEF Line, Plain
  <1>6. Is(6) <=>
           \/ /\ ~ Made("no-contents") /\ Made("dead-anchor")
              /\ "anchor-link" \in kinds /\ x = "no-such-heading"
           \/ /\ ~ Made("no-contents") /\ ~ Made("dead-anchor")
              /\ "anchor-link" \in kinds /\ x = "extra"
    BY ReadmeLines DEF Line, Plain
  <1>7. Is(7) <=>
           \/ ~ Made("heading-renamed") /\ "heading" \in kinds /\ x = "Quick_start"
           \/ Made("heading-renamed") /\ "heading" \in kinds /\ x = "Start"
    BY ReadmeLines DEF Line, Plain
  <1>8. Is(8) <=>
           "link" \in kinds /\ x = "docs/testing.md"
    BY ReadmeLines DEF Line, Plain
  <1>9. Is(9) <=>
           "link" \in kinds /\ x = "README-testing.md"
    BY ReadmeLines DEF Line, Plain
  <1>10. Is(10) <=>
           Made("TODO") /\ "placeholder" \in kinds /\ x = "TODO"
    BY ReadmeLines DEF Line, Plain
  <1>11. Is(11) <=>
           Made("inline-TODO") /\ "inline-placeholder" \in kinds /\ x = "TODO"
    BY ReadmeLines DEF Line, Plain
  <1>12. Is(12) <=>
           Made("fenced-TODO") /\ "fenced-placeholder" \in kinds /\ x = "TODO"
    BY ReadmeLines DEF Line, Plain
  <1>13. Is(13) <=>
           \/ ~ Made("heading-marked-up") /\ "heading" \in kinds /\ x = "Extra"
           \/ Made("heading-marked-up") /\ "heading" \in kinds /\ x = "*Extra*"
    BY ReadmeLines DEF Line, Plain
  <1>14. Is(14) <=>
           Made("dead-anchor-in-prose") /\ "anchor-link" \in kinds /\ x = "other-heading"
    BY ReadmeLines DEF Line, Plain
  <1>15. Is(15) <=>
           Made("broken-link-in-README") /\ "link" \in kinds /\ x = "docs/gone.md"
    BY ReadmeLines DEF Line, Plain
  <1>16. Is(16) <=>
           Made("inline-link") /\ "inline-link" \in kinds /\ x = "docs/gone.md"
    BY ReadmeLines DEF Line, Plain
  <1>17. Is(17) <=>
           Made("fenced-link") /\ "fenced-link" \in kinds /\ x = "docs/gone.md"
    BY ReadmeLines DEF Line, Plain
  <1>18. Is(18) <=>
           Made("orphan-linked") /\ "link" \in kinds /\ x = "orphan.md"
    BY ReadmeLines DEF Line, Plain
  <1>19. Is(19) <=>
           Made("orphan-named") /\ "fenced-text" \in kinds /\ x = "orphan.md"
    BY ReadmeLines DEF Line, Plain
  <1>20. Is(20) <=>
           Made("fenced-heading") /\ "fenced-heading" \in kinds /\ x = "No_such_heading"
    BY ReadmeLines DEF Line, Plain
  <1> HIDE DEF Is
  <1>21. (\E i \in 1..20 : Is(i)) <=>
            \/ Is(1) \/ Is(2) \/ Is(3) \/ Is(4) \/ Is(5) \/ Is(6) \/ Is(7) \/ Is(8) \/ Is(9) \/ Is(10)
            \/ Is(11) \/ Is(12) \/ Is(13) \/ Is(14) \/ Is(15) \/ Is(16) \/ Is(17) \/ Is(18) \/ Is(19)
            \/ Is(20)
    <2>1. \A i \in 1..20 :
             \/ i = 1 \/ i = 2 \/ i = 3 \/ i = 4 \/ i = 5 \/ i = 6 \/ i = 7 \/ i = 8 \/ i = 9 \/ i = 10
             \/ i = 11 \/ i = 12 \/ i = 13 \/ i = 14 \/ i = 15 \/ i = 16 \/ i = 17 \/ i = 18 \/ i = 19
             \/ i = 20
      OBVIOUS
    <2> QED
      BY <2>1
  <1>22. x \in Of(kinds) <=> \E i \in 1..20 : Is(i)
    BY LineOf DEF Is
  <1> QED
    BY <1>1, <1>2, <1>3, <1>4, <1>5, <1>6, <1>7, <1>8, <1>9, <1>10, <1>11, <1>12, <1>13, <1>14,
       <1>15, <1>16, <1>17, <1>18, <1>19, <1>20, <1>21, <1>22

\* The headings, badges, placeholders and links of README.md.
LEMMA LinesOf ==
    ASSUME "README.md" \in Files, NEW x
    PROVE  /\ x \in Of(Heading) <=>
                 \/ x = "Delivery"
                 \/ x = "Contents" /\ ~ Made("no-contents")
                 \/ x = "Quick_start" /\ ~ Made("heading-renamed")
                 \/ x = "Start" /\ Made("heading-renamed")
                 \/ x = "Extra" /\ ~ Made("heading-marked-up")
                 \/ x = "*Extra*" /\ Made("heading-marked-up")
                 \/ x = "No_such_heading" /\ Made("fenced-heading")
           /\ x = "Contents" => (x \in Of({"heading"}) <=> ~ Made("no-contents"))
           /\ x \in Of({"badge"}) <=>
                 \/ x = "ci" /\ ~ Made("no-CI-badge")
                 \/ x = "license" /\ ~ Made("no-license-badge")
           /\ x \in Of(Placeholder) <=> x = "TODO" /\ (Made("TODO") \/ Made("fenced-TODO"))
           /\ x \in Of(Link) <=>
                 \/ x \in {"docs/testing.md", "README-testing.md"}
                 \/ x = "docs/gone.md" /\ (Made("broken-link-in-README") \/ Made("inline-link"))
                 \/ x = "orphan.md" /\ Made("orphan-linked")
  <1>1. x \in Of(Heading) <=>
           \/ x = "Delivery"
           \/ x = "Contents" /\ ~ Made("no-contents")
           \/ x = "Quick_start" /\ ~ Made("heading-renamed")
           \/ x = "Start" /\ Made("heading-renamed")
           \/ x = "Extra" /\ ~ Made("heading-marked-up")
           \/ x = "*Extra*" /\ Made("heading-marked-up")
           \/ x = "No_such_heading" /\ Made("fenced-heading")
    BY OfKinds DEF Heading
  <1>2. x = "Contents" => (x \in Of({"heading"}) <=> ~ Made("no-contents"))
    BY OfKinds
  <1>3. x \in Of({"badge"}) <=>
           \/ x = "ci" /\ ~ Made("no-CI-badge")
           \/ x = "license" /\ ~ Made("no-license-badge")
    BY OfKinds
  <1>4. x \in Of(Placeholder) <=> x = "TODO" /\ (Made("TODO") \/ Made("fenced-TODO"))
    BY OfKinds DEF Placeholder
  <1>5. x \in Of(Link) <=>
           \/ x \in {"docs/testing.md", "README-testing.md"}
           \/ x = "docs/gone.md" /\ (Made("broken-link-in-README") \/ Made("inline-link"))
           \/ x = "orphan.md" /\ Made("orphan-linked")
    BY OfKinds DEF Link
  <1> QED
    BY <1>1, <1>2, <1>3, <1>4, <1>5

LEMMA OrphanOccurs ==
    ASSUME "README.md" \in Files
    PROVE  "orphan.md" \in {Readme[i].of : i \in DOMAIN Readme} <=>
              Made("orphan-linked") \/ Made("orphan-named")
  <1>1. \A i \in 1..20 : Readme[i].of = "orphan.md" => i \in {18, 19}
    <2>1. \A i \in 1..20 : i \in 1..7 \/ i \in 8..13 \/ i \in 14..20
      OBVIOUS
    <2>2. \A i \in 1..7 : Readme[i].of # "orphan.md"
      BY ReadmeLines DEF Line, Plain
    <2>3. \A i \in 8..13 : Readme[i].of # "orphan.md"
      BY ReadmeLines DEF Line, Plain
    <2>4. \A i \in 14..20 : Readme[i].of = "orphan.md" => i \in {18, 19}
      BY ReadmeLines DEF Line, Plain
    <2> QED
      BY <2>1, <2>2, <2>3, <2>4
  <1>2. /\ Readme[18].of = "orphan.md" <=> Made("orphan-linked")
        /\ Readme[19].of = "orphan.md" <=> Made("orphan-named")
    BY ReadmeLines DEF Line, Plain
  <1>3. DOMAIN Readme = 1..20 /\ 18 \in 1..20 /\ 19 \in 1..20
    BY ReadmeLines
  <1> QED
    BY <1>1, <1>2, <1>3

\* Where README.md's Contents are: from line 4 to the heading on line 7.
LEMMA ContentsLines ==
    ASSUME "README.md" \in Files, NEW i \in DOMAIN Readme
    PROVE  InToc(i) /\ Readme[i].kind = "anchor-link" <=> ~ Made("no-contents") /\ i \in {5, 6}
  <1>1. \A h \in 1..20 : Readme[h] = Line("heading", "Contents") <=> h = 4 /\ ~ Made("no-contents")
    <2>1. \A h \in 1..20 : h \in 1..7 \/ h \in 8..13 \/ h \in 14..20
      OBVIOUS
    <2>2. \A h \in 1..7 : Readme[h] = Line("heading", "Contents") <=> h = 4 /\ ~ Made("no-contents")
      BY ReadmeLines DEF Line, Plain
    <2>3. \A h \in 8..13 : Readme[h] # Line("heading", "Contents")
      BY ReadmeLines DEF Line, Plain
    <2>4. \A h \in 14..20 : Readme[h] # Line("heading", "Contents")
      BY ReadmeLines DEF Line, Plain
    <2> QED
      BY <2>1, <2>2, <2>3, <2>4
  <1>2. /\ ~ Made("no-contents") =>
              Readme[5].kind = "anchor-link" /\ Readme[6].kind = "anchor-link"
        /\ Readme[7].kind = "heading" /\ Readme[4].kind # "anchor-link"
    BY ReadmeLines DEF Line, Plain
  <1>3. DOMAIN Readme = 1..20
    BY ReadmeLines
  <1>4. InToc(i) <=> ~ Made("no-contents") /\ 4 <= i /\ \A j \in 5..i : Readme[j].kind \notin Heading
    BY <1>1, <1>3 DEF InToc
  <1>5. i >= 7 => ~ InToc(i)
    <2>1. "heading" \in Heading
      BY DEF Heading
    <2> QED
      BY <1>2, <1>3, <1>4, <2>1
  <1>6. ~ Made("no-contents") => InToc(5) /\ InToc(6)
    <2>1. ASSUME ~ Made("no-contents")
          PROVE  InToc(5) /\ InToc(6)
      <3>1. Readme[4] = Line("heading", "Contents") /\ 4 \in 1..5 /\ 4 \in 1..6
        BY <1>1, <2>1
      <3>2. 4 + 1 = 5
        OBVIOUS
      <3>3. "anchor-link" \notin Heading
        BY DEF Heading
      <3>4. \A j \in 5..5 : Readme[j].kind \notin Heading
        BY <1>2, <2>1, <3>3
      <3>5. \A j \in 5..6 : Readme[j].kind \notin Heading
        BY <1>2, <2>1, <3>3
      <3> QED
        BY <3>1, <3>2, <3>4, <3>5 DEF InToc
    <2> QED
      BY <2>1
  <1> QED
    BY <1>2, <1>3, <1>4, <1>5, <1>6

\* The target of every link of the Contents is the anchor of a heading,
\* unless a change breaks that.
LEMMA ContentsAnchors ==
    ASSUME "README.md" \in Files
    PROVE  /\ "quick-start" \in {slugify(h) : h \in Of(Heading)} <=> ~ Made("heading-renamed")
           /\ "extra" \in {slugify(h) : h \in Of(Heading)}
           /\ "no-such-heading" \in {slugify(h) : h \in Of(Heading)} <=> Made("fenced-heading")
  <1>1. /\ slugify("Delivery") = "delivery"
        /\ slugify("Contents") = "contents"
        /\ slugify("Quick_start") = "quick-start"
        /\ slugify("Start") = "start"
        /\ slugify("Extra") = "extra"
        /\ slugify("*Extra*") = "extra"
        /\ slugify("No_such_heading") = "no-such-heading"
    BY DEF slugify
  <1>2. \A h : h \in Of(Heading) <=>
           \/ h = "Delivery"
           \/ h = "Contents" /\ ~ Made("no-contents")
           \/ h = "Quick_start" /\ ~ Made("heading-renamed")
           \/ h = "Start" /\ Made("heading-renamed")
           \/ h = "Extra" /\ ~ Made("heading-marked-up")
           \/ h = "*Extra*" /\ Made("heading-marked-up")
           \/ h = "No_such_heading" /\ Made("fenced-heading")
    BY LinesOf
  <1> QED
    BY <1>1, <1>2

\* What each rule of the front page says of README.md.
LEMMA ContentsRulesFind ==
    ASSUME "README.md" \in Files, Possible
    PROVE  /\ ContentsRules \subseteq {"toc-anchor", "toc"}
           /\ "toc" \in ContentsRules <=> Made("no-contents")
           /\ "toc-anchor" \in ContentsRules <=>
                 \/ Made("heading-renamed") /\ ~ Made("no-contents")
                 \/ Made("dead-anchor") /\ ~ Made("fenced-heading")
  <1> DEFINE anchors == {slugify(h) : h \in Of(Heading)}
             links == {i \in DOMAIN Readme : InToc(i) /\ Readme[i].kind = "anchor-link"}
             holds == \A i \in links : Readme[i].of \in anchors
  <1>1. ContentsRules = Unless(holds, "toc-anchor") \cup Unless("Contents" \in Of({"heading"}), "toc")
    BY DEF ContentsRules
  <1>2. "Contents" \in Of({"heading"}) <=> ~ Made("no-contents")
    BY LinesOf
  <1>3. links = IF Made("no-contents") THEN {} ELSE {5, 6}
    <2>1. 5 \in DOMAIN Readme /\ 6 \in DOMAIN Readme
      BY ReadmeLines
    <2> QED
      BY <2>1, ContentsLines
  <1>4. ~ Made("no-contents") =>
           /\ Readme[5].of = "quick-start"
           /\ Readme[6].of = IF Made("dead-anchor") THEN "no-such-heading" ELSE "extra"
    BY ReadmeLines DEF Line
  <1>5. Made("no-contents") => ~ Made("dead-anchor")
    BY DEF Possible, Made
  <1>6. holds <=> /\ Made("heading-renamed") => Made("no-contents")
                  /\ Made("dead-anchor") => Made("fenced-heading")
    <2> HIDE DEF links, anchors
    <2>1. CASE Made("no-contents")
      BY <1>3, <1>5, <2>1
    <2>2. CASE ~ Made("no-contents")
      <3>1. /\ "quick-start" \in anchors <=> ~ Made("heading-renamed")
            /\ "extra" \in anchors
            /\ "no-such-heading" \in anchors <=> Made("fenced-heading")
        BY ContentsAnchors DEF anchors
      <3> QED
        BY <1>3, <1>4, <2>2, <3>1
    <2> QED
      BY <2>1, <2>2
  <1> HIDE DEF holds
  <1> QED
    BY <1>1, <1>2, <1>6 DEF Unless

LEMMA BadgeRuleFinds ==
    ASSUME "README.md" \in Files
    PROVE  /\ BadgeRule \subseteq {"badges"}
           /\ "badges" \in BadgeRule <=>
                 Made("no-license-badge") \/ (Made("no-CI-badge") /\ ~ Made("no-workflows"))
  <1>1. ".github/workflows/ci.yml" \in Files <=> ~ Made("no-workflows")
    BY FileFacts
  <1> QED
    BY <1>1, LinesOf DEF BadgeRule, Unless

LEMMA PlaceholderRuleFinds ==
    ASSUME "README.md" \in Files
    PROVE  /\ PlaceholderRule \subseteq {"placeholder"}
           /\ "placeholder" \in PlaceholderRule <=> Made("TODO") \/ Made("fenced-TODO")
  BY LinesOf DEF PlaceholderRule, Unless

\* More than a fifth of at least 200 letters.
LEMMA LanguageRuleFinds ==
    /\ LanguageRule \subseteq {"language-policy"}
    /\ "language-policy" \in LanguageRule <=>
          Made("Cyrillic") /\ ~ Made("waiver") /\ ~ Made("short")
  <1> DEFINE letters == But("short", But("just-long-enough", 1000, 200), 199)
             cyrillic == But("Cyrillic", But("one-fifth-Cyrillic", 0, letters \div 5),
                             letters \div 5 + 1)
  <1>1. LanguageRule =
           Unless(is_cyrillic_heavy(cyrillic, letters) => "waiver" \in changes, "language-policy")
    BY DEF LanguageRule
  <1>2. letters = IF Made("short") THEN 199 ELSE IF Made("just-long-enough") THEN 200 ELSE 1000
    BY DEF But, Made
  <1>3. cyrillic = IF Made("Cyrillic") THEN letters \div 5 + 1
                   ELSE IF Made("one-fifth-Cyrillic") THEN letters \div 5 ELSE 0
    BY DEF But, Made
  <1> HIDE DEF letters, cyrillic
  <1>4. is_cyrillic_heavy(cyrillic, letters) <=> Made("Cyrillic") /\ ~ Made("short")
    <2>1. CASE Made("short")
      BY <1>2, <2>1 DEF is_cyrillic_heavy
    <2>2. CASE ~ Made("short")
      <3>1. letters \in {200, 1000}
        BY <1>2, <2>2
      <3>2. letters >= 200 /\ 5 * (letters \div 5) = letters /\ letters \div 5 \in Nat
        BY <3>1
      <3> QED
        BY <1>3, <2>2, <3>2 DEF is_cyrillic_heavy
    <2> QED
      BY <2>1, <2>2
  <1> QED
    BY <1>1, <1>4 DEF Unless, Made

-----------------------------------------------------------------------------
(* check-repo-contract.py: every function notes the rules of its own that  *)
(* are broken.                                                             *)

ContractLabel ==
    {"check_required", "check_readme", "check_links", "check_orphans", "check_coc_single_home",
     "check_secrets", "contract-verdict"}

RequiredRules == {"required-artifact", "exemption-violated"}
PageRules == {"language-policy", "toc-anchor", "toc", "badges", "placeholder"}
BeforeLinks == RequiredRules \cup PageRules \cup {"readme"}
BeforeOrphans == BeforeLinks \cup {"broken-link"}
BeforeCoc == BeforeOrphans \cup {"orphan-doc"}
BeforeSecrets == BeforeCoc \cup {"coc-duplicate"}

\* The rules that have been applied when the script is about to call label.
RulesBefore(label) ==
    CASE label = "check_required" -> {}
      [] label = "check_readme" -> RequiredRules
      [] label = "check_links" -> BeforeLinks
      [] label = "check_orphans" -> BeforeOrphans
      [] label = "check_coc_single_home" -> BeforeCoc
      [] label = "check_secrets" -> BeforeSecrets
      [] label = "contract-verdict" -> ContractRule

LEMMA RulesBeforeTable ==
    /\ RulesBefore("check_required") = {}
    /\ RulesBefore("check_readme") = RequiredRules
    /\ RulesBefore("check_links") = BeforeLinks
    /\ RulesBefore("check_orphans") = BeforeOrphans
    /\ RulesBefore("check_coc_single_home") = BeforeCoc
    /\ RulesBefore("check_secrets") = BeforeSecrets
    /\ RulesBefore("contract-verdict") = ContractRule
  BY DEF RulesBefore

ContractInv ==
    script = "contract" =>
        /\ pc \in ContractLabel \cup {"load_contract", "ended"}
        /\ pc = "load_contract" => reported = {}
        /\ pc \in ContractLabel =>
              /\ ReachedData
              /\ reported = Found \cap RulesBefore(pc)
              /\ pc = "check_required" \/ checked \/ reported # {}

\* Nobody changes the repository meanwhile: what is broken stays so.
LEMMA SameInputs ==
    ASSUME UNCHANGED inputs
    PROVE  /\ script' = script /\ changes' = changes /\ Possible' = Possible
           /\ Found' = Found /\ Hidden' = Hidden /\ ReachedData' = ReachedData
  <1>1. script' = script /\ changes' = changes
    BY DEF inputs
  <1>2. Moot' = Moot /\ Missed' = Missed
    BY <1>1 DEF Moot, Missed
  <1>3. Possible' = Possible
    BY <1>1 DEF Possible
  <1> QED
    BY <1>1, <1>2, <1>3 DEF Found, BrokenBy, Hidden, ReachedData

\* A check that notes which rules are broken, of those applied between two
\* labels, keeps the invariant.
LEMMA ChecksKeep ==
    ASSUME ContractInv, script = "contract", pc \in ContractLabel,
           NEW label \in ContractLabel \ {"check_required"}, NEW rules, NEW broken, NEW applied,
           Checks(rules, broken, label),
           rules # {}, broken \subseteq rules,
           RulesBefore(label) = RulesBefore(pc) \cup applied,
           broken = Found \cap applied
    PROVE  ContractInv' /\ pc' # "ended" /\ UNCHANGED <<inputs, exit>> /\ checked' \in BOOLEAN
  <1>1. /\ pc' = label /\ reported' = reported \cup broken
        /\ checked' = (checked \/ rules # broken) /\ UNCHANGED <<inputs, exit>>
    BY DEF Checks
  <1>2. script' = script /\ Found' = Found /\ ReachedData' = ReachedData
    BY <1>1, SameInputs
  <1>3. RulesBefore(pc)' = RulesBefore(label)
    BY <1>1
  <1>4. reported' = Found \cap RulesBefore(label)
    BY <1>1 DEF ContractInv
  <1>5. checked' \/ reported' # {}
    BY <1>1
  <1>6. pc' # "ended" /\ pc' # "load_contract"
    BY <1>1 DEF ContractLabel
  <1> QED
    BY <1>1, <1>2, <1>3, <1>4, <1>5, <1>6 DEF ContractInv

LEMMA CheckRequiredNotes ==
    ASSUME ContractInv, script = "contract", CheckRequired
    PROVE  ContractInv' /\ pc' # "ended" /\ UNCHANGED <<inputs, exit>> /\ checked' \in BOOLEAN
  <1> DEFINE found == Unless(Required \subseteq Files, "required-artifact")
                      \cup Unless(Exempt \cap Files = {}, "exemption-violated")
  <1>1. Checks(RequiredRules, found, "check_readme") /\ pc = "check_required"
    BY DEF CheckRequired, RequiredRules
  <1>2. Required \subseteq Files <=>
           ~ (Made("SECURITY-deleted") \/ Made("README-deleted") \/ Made("gitignore-deleted"))
    BY FileFacts DEF Required, GOVERNANCE_DOCS
  <1>3. Exempt \cap Files = {} <=> ~ Made("Dockerfile-added")
    BY FileFacts DEF Exempt
  <1>4. found = Found \cap RequiredRules
    BY <1>2, <1>3, FoundContractRules DEF Unless, RequiredRules
  <1>5. RulesBefore("check_readme") = RulesBefore(pc) \cup RequiredRules
    BY <1>1, RulesBeforeTable
  <1>6. RequiredRules # {} /\ pc \in ContractLabel /\ "check_readme" \in ContractLabel
    BY <1>1 DEF RequiredRules, ContractLabel
  <1> HIDE DEF found
  <1> QED
    BY <1>1, <1>4, <1>5, <1>6, ChecksKeep

LEMMA CheckReadmeNotes ==
    ASSUME ContractInv, Possible, script = "contract", CheckReadme
    PROVE  ContractInv' /\ pc' # "ended" /\ UNCHANGED <<inputs, exit>> /\ checked' \in BOOLEAN
  <1> DEFINE found == LanguageRule \cup ContentsRules \cup BadgeRule \cup PlaceholderRule
             applied == PageRules \cup {"readme"}
  <1>1. pc = "check_readme" /\ pc \in ContractLabel /\ "check_links" \in ContractLabel
    BY DEF CheckReadme, ContractLabel
  <1>2. RulesBefore("check_links") = RulesBefore(pc) \cup applied
    BY <1>1, RulesBeforeTable DEF BeforeLinks
  <1>3. "README.md" \in Files <=> ~ Made("README-deleted")
    BY FileFacts
  <1>4. CASE Made("README-deleted")
    <2>1. Checks({"readme"}, {"readme"}, "check_links")
      BY <1>3, <1>4 DEF CheckReadme
    <2>2. {"readme"} = Found \cap applied
      <3>1. /\ ~ Made("Cyrillic") /\ ~ Made("no-contents") /\ ~ Made("dead-anchor")
            /\ ~ Made("heading-renamed") /\ ~ Made("no-license-badge") /\ ~ Made("no-CI-badge")
            /\ ~ Made("TODO") /\ ~ Made("fenced-TODO")
        BY <1>4, NoPage DEF OfReadme
      <3> QED
        BY <1>4, <3>1, FoundContractRules DEF PageRules
    <2> QED
      BY <1>1, <1>2, <2>1, <2>2, ChecksKeep
  <1>5. CASE ~ Made("README-deleted")
    <2>1. Checks(PageRules, found, "check_links")
      BY <1>3, <1>5 DEF CheckReadme, PageRules
    <2>2. /\ "toc" \in found <=> "toc" \in Found
          /\ "toc-anchor" \in found <=> "toc-anchor" \in Found
          /\ "badges" \in found <=> "badges" \in Found
          /\ "placeholder" \in found <=> "placeholder" \in Found
          /\ "language-policy" \in found <=> "language-policy" \in Found
      BY <1>3, <1>5, FoundContractRules, ContentsRulesFind, BadgeRuleFinds, PlaceholderRuleFinds,
         LanguageRuleFinds
    <2>3. found \subseteq PageRules
      BY <1>3, <1>5, ContentsRulesFind, BadgeRuleFinds, PlaceholderRuleFinds, LanguageRuleFinds
      DEF PageRules
    <2> HIDE DEF found
    <2>4. found = Found \cap applied
      <3>1. "readme" \notin Found
        BY <1>5, FoundContractRules
      <3> QED
        BY <2>2, <2>3, <3>1 DEF PageRules
    <2>5. PageRules # {}
      BY DEF PageRules
    <2> QED
      BY <1>1, <1>2, <2>1, <2>3, <2>4, <2>5, ChecksKeep
  <1> QED
    BY <1>4, <1>5

LEMMA CheckLinksNotes ==
    ASSUME ContractInv, Possible, script = "contract", CheckLinks
    PROVE  ContractInv' /\ pc' # "ended" /\ UNCHANGED <<inputs, exit>> /\ checked' \in BOOLEAN
  <1> DEFINE ofDocs == IF "docs/testing.md" \in Files
                       THEN {But("broken-link-in-docs", "README-testing.md", "gone.md")} ELSE {}
             links == Of(Link) \cup ofDocs
             found == Unless(links \subseteq Files, "broken-link")
  <1>1. pc = "check_links" /\ Checks({"broken-link"}, found, "check_orphans")
    BY DEF CheckLinks
  <1>2. Of(Link) \subseteq Files <=>
           /\ ~ Made("broken-link-in-README") /\ ~ Made("inline-link")
           /\ Made("orphan-linked") => Made("orphan-added")
           /\ Made("docs-deleted") => Made("README-deleted")
    <2>1. CASE Made("README-deleted")
      <3>1. "README.md" \notin Files
        BY <2>1, FileFacts
      <3>2. Of(Link) = {}
        BY <3>1 DEF Of, Readme
      <3>3. ~ Made("broken-link-in-README") /\ ~ Made("inline-link") /\ ~ Made("orphan-linked")
        BY <2>1, NoPage DEF OfReadme
      <3> QED
        BY <2>1, <3>2, <3>3
    <2>2. CASE ~ Made("README-deleted")
      <3>1. "README.md" \in Files
        BY <2>2, FileFacts
      <3>2. /\ "docs/gone.md" \notin Files /\ "README-testing.md" \in Files
            /\ "docs/testing.md" \in Files <=> ~ Made("docs-deleted")
            /\ "orphan.md" \in Files <=> Made("orphan-added")
        BY FileFacts
      <3>3. \A x : x \in Of(Link) <=>
               \/ x \in {"docs/testing.md", "README-testing.md"}
               \/ x = "docs/gone.md" /\ (Made("broken-link-in-README") \/ Made("inline-link"))
               \/ x = "orphan.md" /\ Made("orphan-linked")
        BY <3>1, LinesOf
      <3> QED
        BY <2>2, <3>2, <3>3
    <2> QED
      BY <2>1, <2>2
  <1>3. ofDocs \subseteq Files <=> ~ Made("broken-link-in-docs")
    <2>1. /\ "gone.md" \notin Files /\ "README-testing.md" \in Files
          /\ "docs/testing.md" \in Files <=> ~ Made("docs-deleted")
      BY FileFacts
    <2>2. Made("docs-deleted") => ~ Made("broken-link-in-docs")
      BY DEF Possible, Made
    <2> QED
      BY <2>1, <2>2 DEF But, Made
  <1> HIDE DEF ofDocs
  <1>4. links \subseteq Files <=> Of(Link) \subseteq Files /\ ofDocs \subseteq Files
    OBVIOUS
  <1>5. found = Found \cap {"broken-link"}
    BY <1>2, <1>3, <1>4, FoundContractRules DEF Unless
  <1>6. RulesBefore("check_orphans") = RulesBefore(pc) \cup {"broken-link"}
    BY <1>1, RulesBeforeTable DEF BeforeOrphans
  <1>7. pc \in ContractLabel /\ "check_orphans" \in ContractLabel
    BY <1>1 DEF ContractLabel
  <1> HIDE DEF found
  <1> QED
    BY <1>1, <1>5, <1>6, <1>7, ChecksKeep

LEMMA CheckOrphansNotes ==
    ASSUME ContractInv, Possible, script = "contract", CheckOrphans
    PROVE  ContractInv' /\ pc' # "ended" /\ UNCHANGED <<inputs, exit>> /\ checked' \in BOOLEAN
  <1> DEFINE occurring == {Readme[i].of : i \in DOMAIN Readme}
             found == Unless((Markdown \cap Files) \ GOVERNANCE_DOCS \subseteq occurring,
                             "orphan-doc")
  <1>1. pc = "check_orphans" /\ Checks({"orphan-doc"}, found, "check_coc_single_home")
    BY DEF CheckOrphans
  <1>2. \A f : f \in (Markdown \cap Files) \ GOVERNANCE_DOCS <=>
           f = "README-testing.md" \/ (f = "orphan.md" /\ Made("orphan-added"))
    BY FileFacts DEF Markdown, GOVERNANCE_DOCS
  <1>3. "README-testing.md" \in occurring <=> ~ Made("README-deleted")
    <2>1. CASE Made("README-deleted")
      <3>1. "README.md" \notin Files
        BY <2>1, FileFacts
      <3> QED
        BY <2>1, <3>1 DEF Readme
    <2>2. CASE ~ Made("README-deleted")
      <3>1. "README.md" \in Files
        BY <2>2, FileFacts
      <3>2. 9 \in DOMAIN Readme /\ Readme[9].of = "README-testing.md"
        BY <3>1, ReadmeLines DEF Line
      <3> QED
        BY <2>2, <3>2
    <2> QED
      BY <2>1, <2>2
  <1>4. "orphan.md" \in occurring <=> Made("orphan-linked") \/ Made("orphan-named")
    <2>1. CASE Made("README-deleted")
      <3>1. "README.md" \notin Files
        BY <2>1, FileFacts
      <3>2. ~ Made("orphan-linked") /\ ~ Made("orphan-named")
        BY <2>1, NoPage DEF OfReadme
      <3> QED
        BY <2>1, <3>1, <3>2 DEF Readme
    <2>2. CASE ~ Made("README-deleted")
      <3>1. "README.md" \in Files
        BY <2>2, FileFacts
      <3> QED
        BY <2>2, <3>1, OrphanOccurs
    <2> QED
      BY <2>1, <2>2
  <1> HIDE DEF occurring
  <1>5. found = Found \cap {"orphan-doc"}
    BY <1>2, <1>3, <1>4, FoundContractRules DEF Unless
  <1>6. RulesBefore("check_coc_single_home") = RulesBefore(pc) \cup {"orphan-doc"}
    BY <1>1, RulesBeforeTable DEF BeforeCoc
  <1>7. pc \in ContractLabel /\ "check_coc_single_home" \in ContractLabel
    BY <1>1 DEF ContractLabel
  <1> HIDE DEF found
  <1> QED
    BY <1>1, <1>5, <1>6, <1>7, ChecksKeep

LEMMA CheckCocSingleHomeNotes ==
    ASSUME ContractInv, script = "contract", CheckCocSingleHome
    PROVE  ContractInv' /\ pc' # "ended" /\ UNCHANGED <<inputs, exit>> /\ checked' \in BOOLEAN
  <1> DEFINE found ==
          Unless(~ ({"CODE_OF_CONDUCT.md", ".github/CODE_OF_CONDUCT.md"} \subseteq Files),
                 "coc-duplicate")
  <1>1. pc = "check_coc_single_home" /\ Checks({"coc-duplicate"}, found, "check_secrets")
    BY DEF CheckCocSingleHome
  <1>2. "CODE_OF_CONDUCT.md" \in Files
        /\ (".github/CODE_OF_CONDUCT.md" \in Files <=> Made("conduct-twice"))
    BY FileFacts
  <1>3. found = Found \cap {"coc-duplicate"}
    BY <1>2, FoundContractRules DEF Unless
  <1>4. RulesBefore("check_secrets") = RulesBefore(pc) \cup {"coc-duplicate"}
    BY <1>1, RulesBeforeTable DEF BeforeSecrets
  <1>5. pc \in ContractLabel /\ "check_secrets" \in ContractLabel
    BY <1>1 DEF ContractLabel
  <1> HIDE DEF found
  <1>6. found \subseteq {"coc-duplicate"} /\ {"coc-duplicate"} # {}
    BY <1>3
  <1> QED
    BY <1>1, <1>3, <1>4, <1>5, <1>6, ChecksKeep

LEMMA CheckSecretsNotes ==
    ASSUME ContractInv, script = "contract", CheckSecrets
    PROVE  ContractInv' /\ pc' # "ended" /\ UNCHANGED <<inputs, exit>> /\ checked' \in BOOLEAN
  <1> DEFINE applied == {"secret", "gitignore"}
             found == Unless(".env" \notin Files, "secret")
                      \cup Unless(".gitignore" \in Files /\ "gitignore-silent" \notin changes,
                                  "gitignore")
  <1>1. pc = "check_secrets" /\ Checks(applied, found, "contract-verdict")
    BY DEF CheckSecrets
  <1>2. (".env" \in Files <=> Made("env-committed"))
        /\ (".gitignore" \in Files <=> ~ Made("gitignore-deleted"))
        /\ ("gitignore-silent" \in changes <=> Made("gitignore-silent"))
    BY FileFacts DEF Made
  <1>3. found = Found \cap applied
    BY <1>2, FoundContractRules DEF Unless
  <1>4. RulesBefore("contract-verdict") = RulesBefore(pc) \cup applied
    BY <1>1, RulesBeforeTable
    DEF BeforeSecrets, BeforeCoc, BeforeOrphans, BeforeLinks, RequiredRules, PageRules, ContractRule
  <1>5. pc \in ContractLabel /\ "contract-verdict" \in ContractLabel /\ applied # {}
    BY <1>1 DEF ContractLabel
  <1> HIDE DEF found
  <1>6. found \subseteq applied
    BY <1>3
  <1> HIDE DEF applied
  <1> QED
    BY <1>1, <1>3, <1>4, <1>5, <1>6, ChecksKeep

-----------------------------------------------------------------------------
(* check-coverage.py                                                       *)

\* No change of a report can be one of a README.
LEMMA HiddenInCoverage ==
    ASSUME NEW c \in Harmful("coverage"), Made(c)
    PROVE  c \in Hidden <=> c # "no-modules-listed" /\ Made("no-modules-listed")
  BY CoverageHarmful DEF Hidden, Moot, Missed, OfHandlers, Made

\* Every rule, with the change that has it found broken.
LEMMA FoundCoverageRules ==
    ASSUME script = "coverage"
    PROVE  /\ Found \subseteq CoverageRule
           /\ <<"floors", "none">> \in Found <=> Made("no-modules-listed")
           /\ <<"report", "no-files">> \in Found <=>
                 Made("files-not-an-object") /\ ~ Made("no-modules-listed")
           /\ <<"handlers", "absent">> \in Found <=>
                 Made("handlers-not-imported") /\ ~ Made("no-modules-listed")
           /\ <<"handlers", "no-percentage">> \in Found <=>
                 Made("handlers-without-percentage") /\ ~ Made("no-modules-listed")
           /\ <<"handlers", "below">> \in Found <=>
                 Made("handlers-below") /\ ~ Made("no-modules-listed")
           /\ <<"admin", "below">> \in Found <=>
                 Made("admin-below") /\ ~ Made("no-modules-listed")
  <1>1. Breaks[script] = CoverageBreaks /\ DOMAIN CoverageBreaks = CoverageRule
    BY DEF Breaks, CoverageBreaks
  <1>2. \A r \in CoverageRule : \A c :
           CoverageBreaks[r] = {c} =>
              (r \in Found <=> Made(c) /\ (c = "no-modules-listed" \/ ~ Made("no-modules-listed")))
    <2>1. SUFFICES ASSUME NEW r \in CoverageRule, NEW c, CoverageBreaks[r] = {c}
                   PROVE  r \in Found <=>
                             Made(c) /\ (c = "no-modules-listed" \/ ~ Made("no-modules-listed"))
      OBVIOUS
    <2>2. c \in Harmful("coverage")
      BY <2>1, <1>1 DEF Harmful, Breaks
    <2> QED
      BY <1>1, <2>1, <2>2, FoundRule, HiddenInCoverage
  <1>3. /\ CoverageBreaks[<<"floors", "none">>] = {"no-modules-listed"}
        /\ CoverageBreaks[<<"report", "no-files">>] = {"files-not-an-object"}
        /\ CoverageBreaks[<<"handlers", "absent">>] = {"handlers-not-imported"}
        /\ CoverageBreaks[<<"handlers", "no-percentage">>] = {"handlers-without-percentage"}
        /\ CoverageBreaks[<<"handlers", "below">>] = {"handlers-below"}
        /\ CoverageBreaks[<<"admin", "below">>] = {"admin-below"}
    BY DEF CoverageBreaks, CoverageRule
  <1>4. Found \subseteq CoverageRule
    BY <1>1 DEF Found, BrokenBy
  <1>5. /\ <<"floors", "none">> \in CoverageRule
        /\ <<"report", "no-files">> \in CoverageRule
        /\ <<"handlers", "absent">> \in CoverageRule
        /\ <<"handlers", "no-percentage">> \in CoverageRule
        /\ <<"handlers", "below">> \in CoverageRule
        /\ <<"admin", "below">> \in CoverageRule
    BY DEF CoverageRule
  <1> QED
    BY <1>2, <1>3, <1>4, <1>5

\* What is wrong with a module, by what was done to the report.
LEMMA ProblemTable ==
    /\ Problem("admin") = IF Made("admin-below") THEN {<<"admin", "below">>} ELSE {}
    /\ Problem("handlers") =
          IF Made("handlers-not-imported") THEN {<<"handlers", "absent">>}
          ELSE IF Made("handlers-without-percentage") THEN {<<"handlers", "no-percentage">>}
          ELSE IF Made("handlers-below") THEN {<<"handlers", "below">>} ELSE {}
  <1>1. \A m : Path("/", m) \in {normalise(p) : p \in ReportFiles} <=> m \in Imported
    <2> DEFINE separator == But("backslashes", "/", "\\")
    <2>1. ReportFiles = {Path(separator, m) : m \in Imported}
      BY DEF ReportFiles
    <2> HIDE DEF separator
    <2>2. \A m : normalise(Path(separator, m)) = Path("/", m)
      BY DEF normalise, Path
    <2>3. \A m, n : Path("/", m) = Path("/", n) => m = n
      BY DEF Path
    <2> QED
      BY <2>1, <2>2, <2>3
  <1>2. "admin" \in Imported /\ ("handlers" \in Imported <=> ~ Made("handlers-not-imported"))
    BY DEF Imported, Without, With, Made
  <1>3. /\ "admin" \in DOMAIN Percent
        /\ "handlers" \in DOMAIN Percent <=>
              "handlers" \in Imported /\ ~ Made("handlers-without-percentage")
    BY <1>2 DEF Percent, With, Made
  <1>4. Percent["admin"] = IF Made("admin-below") THEN 590 ELSE 750
    BY <1>3 DEF Percent, But, Made
  <1>5. "handlers" \in DOMAIN Percent =>
           Percent["handlers"] = IF Made("handlers-below") THEN 298
                                 ELSE IF Made("handlers-rounded") THEN 299
                                 ELSE IF Made("handlers-at-floor") THEN 300 ELSE 310
    BY DEF Percent, But, Made
  <1>6. Floors["admin"] = 600 /\ Floors["handlers"] = 300 /\ TOLERANCE = 1
    BY DEF Floors, TOLERANCE
  <1>7. Problem("admin") = IF Made("admin-below") THEN {<<"admin", "below">>} ELSE {}
    BY <1>1, <1>2, <1>3, <1>4, <1>6 DEF Problem, Unless
  <1>8. CASE "handlers" \in DOMAIN Percent
    BY <1>1, <1>2, <1>3, <1>5, <1>6, <1>7, <1>8 DEF Problem, Unless
  <1>9. CASE "handlers" \notin DOMAIN Percent
    BY <1>1, <1>2, <1>3, <1>7, <1>9 DEF Problem
  <1> QED
    BY <1>8, <1>9

\* The report of check-coverage.py is exact.
LEMMA CheckFloorsFinds ==
    ASSUME script = "coverage", Possible, CheckFloors
    PROVE  Ends(IF Found = {} THEN 0 ELSE 1, Found)
  <1> DEFINE problems ==
          IF "no-modules-listed" \in changes THEN {<<"floors", "none">>}
          ELSE IF "files-not-an-object" \in changes THEN {<<"report", "no-files">>}
          ELSE UNION {Problem(m) : m \in DOMAIN Floors}
  <1>1. Ends(IF problems = {} THEN 0 ELSE 1, problems)
    BY DEF CheckFloors
  <1>2. DOMAIN Floors = {"handlers", "admin"}
    BY DEF Floors
  <1>3. problems = IF Made("no-modules-listed") THEN {<<"floors", "none">>}
                   ELSE IF Made("files-not-an-object") THEN {<<"report", "no-files">>}
                   ELSE Problem("handlers") \cup Problem("admin")
    BY <1>2 DEF Made
  <1> HIDE DEF problems
  <1>4. \A r : r \in problems <=> r \in Found
    <2>1. problems \subseteq CoverageRule
      BY <1>3, ProblemTable DEF CoverageRule
    <2>2. \A r \in CoverageRule : r \in problems <=> r \in Found
      <3>1. Made("files-not-an-object") =>
               /\ ~ Made("handlers-not-imported") /\ ~ Made("handlers-without-percentage")
               /\ ~ Made("handlers-below") /\ ~ Made("admin-below")
        BY DEF Possible, OfHandlers, Made
      <3>2. /\ Made("handlers-not-imported") =>
                  ~ Made("handlers-without-percentage") /\ ~ Made("handlers-below")
            /\ Made("handlers-without-percentage") => ~ Made("handlers-below")
        BY DEF Possible, OfHandlers, Made
      <3> QED
        BY <1>3, <3>1, <3>2, ProblemTable, FoundCoverageRules DEF CoverageRule
    <2> QED
      BY <2>1, <2>2, FoundCoverageRules
  <1>5. problems = Found
    BY <1>4
  <1> QED
    BY <1>1, <1>5

-----------------------------------------------------------------------------
(* validate_compose.py: sequences.                                         *)

\* A set written down as a sequence holds its elements, each once.
LEMMA SetToSeqFacts ==
    ASSUME NEW S, IsFiniteSet(S)
    PROVE  /\ SetToSeq(S) \in Seq(S)
           /\ IsInjective(SetToSeq(S))
           /\ Range(SetToSeq(S)) = S
  <1> DEFINE n == Cardinality(S)
             f == SetToSeq(S)
  <1>1. n \in Nat /\ ExistsBijection(1..n, S)
    BY FS_CardinalityType
  <1>2. PICK g : g \in Bijection(1..n, S)
    BY <1>1 DEF ExistsBijection
  <1>3. g \in [1..n -> S] /\ IsInjective(g)
    BY <1>2 DEF Bijection, Injection
  <1>4. f \in [1..n -> S] /\ IsInjective(f)
    BY <1>3 DEF SetToSeq
  <1>5. f \in Injection(1..n, S)
    BY <1>4 DEF Injection
  <1>6. Cardinality(1..n) = n
    BY <1>1, FS_Interval
  <1>7. f \in Surjection(1..n, S)
    BY <1>5, <1>6, FS_Injection
  <1> HIDE DEF f, n
  <1>8. Range(f) = S
    BY <1>4, <1>7 DEF Surjection, Range
  <1>9. f \in Seq(S)
    BY <1>1, <1>4
  <1> QED
    BY <1>4, <1>8, <1>9 DEF f

LEMMA ConcatFacts ==
    ASSUME NEW S, NEW s \in Seq(S), NEW t \in Seq(S)
    PROVE  /\ s \o t \in Seq(S)
           /\ Range(s \o t) = Range(s) \cup Range(t)
           /\ IsInjective(s \o t) <=>
                 IsInjective(s) /\ IsInjective(t) /\ Range(s) \cap Range(t) = {}
  <1> DEFINE m == Len(s)
             n == Len(t)
             u == s \o t
  <1>1. /\ m \in Nat /\ n \in Nat /\ DOMAIN s = 1..m /\ DOMAIN t = 1..n
        /\ u \in Seq(S) /\ DOMAIN u = 1..(m + n)
    OBVIOUS
  <1>2. \A i \in 1..m : i \in DOMAIN u /\ u[i] = s[i]
    OBVIOUS
  <1>3. \A j \in 1..n : m + j \in DOMAIN u /\ u[m + j] = t[j]
    OBVIOUS
  <1>4. \A k \in DOMAIN u : k \in 1..m \/ (k - m \in 1..n /\ k = m + (k - m))
    BY <1>1
  <1> HIDE DEF m, n, u
  <1>5. /\ \A k \in DOMAIN u : k \in 1..m => u[k] \in Range(s)
        /\ \A k \in DOMAIN u : k \notin 1..m => u[k] \in Range(t)
    <2>1. \A i \in 1..m : s[i] \in Range(s)
      BY <1>1 DEF Range
    <2>2. \A j \in 1..n : t[j] \in Range(t)
      BY <1>1 DEF Range
    <2>3. ASSUME NEW k \in DOMAIN u, k \notin 1..m PROVE u[k] \in Range(t)
      <3>1. k - m \in 1..n /\ k = m + (k - m)
        BY <1>4, <2>3
      <3>2. u[k] = t[k - m]
        BY <1>3, <3>1
      <3> QED
        BY <2>2, <3>1, <3>2
    <2> QED
      BY <1>2, <2>1, <2>3
  <1>6. Range(u) = Range(s) \cup Range(t)
    <2>1. Range(u) \subseteq Range(s) \cup Range(t)
      <3>1. SUFFICES ASSUME NEW k \in DOMAIN u PROVE u[k] \in Range(s) \cup Range(t)
        BY DEF Range
      <3> QED
        BY <1>5
    <2>2. Range(s) \subseteq Range(u)
      <3>1. SUFFICES ASSUME NEW i \in 1..m PROVE s[i] \in Range(u)
        BY <1>1 DEF Range
      <3> QED
        BY <1>2 DEF Range
    <2>3. Range(t) \subseteq Range(u)
      <3>1. SUFFICES ASSUME NEW j \in 1..n PROVE t[j] \in Range(u)
        BY <1>1 DEF Range
      <3>2. m + j \in DOMAIN u /\ u[m + j] = t[j]
        BY <1>3
      <3> QED
        BY <3>2 DEF Range
    <2> QED
      BY <2>1, <2>2, <2>3
  <1>7. ASSUME IsInjective(u)
        PROVE  IsInjective(s) /\ IsInjective(t) /\ Range(s) \cap Range(t) = {}
    <2>1. IsInjective(s)
      BY <1>1, <1>2, <1>7 DEF IsInjective
    <2>2. IsInjective(t)
      <3>1. SUFFICES ASSUME NEW i \in 1..n, NEW j \in 1..n, t[i] = t[j] PROVE i = j
        BY <1>1 DEF IsInjective
      <3>2. u[m + i] = u[m + j]
        BY <1>3, <3>1
      <3>3. m + i = m + j
        BY <1>3, <1>7, <3>2 DEF IsInjective
      <3> QED
        BY <1>1, <3>3
    <2>3. Range(s) \cap Range(t) = {}
      <3>1. SUFFICES ASSUME NEW i \in 1..m, NEW j \in 1..n, s[i] = t[j] PROVE FALSE
        BY <1>1 DEF Range
      <3>2. u[i] = u[m + j]
        BY <1>2, <1>3, <3>1
      <3>3. i = m + j
        BY <1>2, <1>3, <1>7, <3>2 DEF IsInjective
      <3> QED
        BY <1>1, <3>3
    <2> QED
      BY <2>1, <2>2, <2>3
  <1>8. ASSUME IsInjective(s), IsInjective(t), Range(s) \cap Range(t) = {}
        PROVE  IsInjective(u)
    <2>1. SUFFICES ASSUME NEW i \in DOMAIN u, NEW j \in DOMAIN u, u[i] = u[j] PROVE i = j
      BY DEF IsInjective
    <2>2. CASE i \in 1..m /\ j \in 1..m
      BY <1>1, <1>2, <1>8, <2>1, <2>2 DEF IsInjective
    <2>3. CASE i \in 1..m /\ j \notin 1..m
      BY <1>8, <1>5, <2>1, <2>3
    <2>4. CASE i \notin 1..m /\ j \in 1..m
      BY <1>8, <1>5, <2>1, <2>4
    <2>5. CASE i \notin 1..m /\ j \notin 1..m
      <3>1. /\ i - m \in 1..n /\ j - m \in 1..n
            /\ u[i] = t[i - m] /\ u[j] = t[j - m]
        BY <1>3, <1>4, <2>5
      <3>2. i - m = j - m
        BY <1>1, <1>8, <2>1, <3>1 DEF IsInjective
      <3> QED
        BY <1>1, <3>2
    <2> QED
      BY <2>2, <2>3, <2>4, <2>5
  <1> QED
    BY <1>1, <1>6, <1>7, <1>8 DEF u

\* What a change may have appended to a list: nothing, or one element.
LEMMA AppendedFacts ==
    ASSUME NEW c, NEW S, NEW x \in S
    PROVE  /\ But(c, <<>>, <<x>>) \in Seq(S)
           /\ IsInjective(But(c, <<>>, <<x>>))
           /\ Range(But(c, <<>>, <<x>>)) = IF Made(c) THEN {x} ELSE {}
  <1>1. /\ <<>> \in Seq(S) /\ IsInjective(<<>>) /\ Range(<<>>) = {}
        /\ <<x>> \in Seq(S) /\ IsInjective(<<x>>) /\ Range(<<x>>) = {x}
    BY DEF IsInjective, Range
  <1> QED
    BY <1>1 DEF But, Made

-----------------------------------------------------------------------------
(* validate_compose.py: what its functions find.                           *)

LEMMA FiniteLists == IsFiniteSet(REQUIRED_SERVICE_KEYS) /\ IsFiniteSet(EXPECTED_ENV)
  <1>1. \A x, y, z : IsFiniteSet({x, y, z})
    <2>1. SUFFICES ASSUME NEW x, NEW y, NEW z PROVE IsFiniteSet({x, y, z})
      OBVIOUS
    <2>2. IsFiniteSet({x})
      BY FS_Singleton
    <2>3. IsFiniteSet({x} \cup {y})
      BY <2>2, FS_AddElement
    <2>4. IsFiniteSet(({x} \cup {y}) \cup {z})
      BY <2>3, FS_AddElement
    <2>5. {x, y, z} = ({x} \cup {y}) \cup {z}
      OBVIOUS
    <2> QED
      BY <2>4, <2>5
  <1>2. REQUIRED_SERVICE_KEYS =
           ({"image", "environment", "ports"} \cup {"healthcheck"}) \cup {"networks"}
    BY DEF REQUIRED_SERVICE_KEYS
  <1>3. IsFiniteSet({"image", "environment", "ports"})
    BY <1>1
  <1>4. IsFiniteSet({"image", "environment", "ports"} \cup {"healthcheck"})
    BY <1>3, FS_AddElement
  <1>5. IsFiniteSet(REQUIRED_SERVICE_KEYS)
    BY <1>2, <1>4, FS_AddElement
  <1> QED
    BY <1>1, <1>5 DEF EXPECTED_ENV

\* A mapping of which a change may have repeated one key.
LEMMA RepeatedKey ==
    ASSUME NEW S, NEW keys \in Seq(S), IsInjective(keys), NEW c, NEW x \in Range(keys)
    PROVE  IsInjective(keys \o But(c, <<>>, <<x>>)) <=> ~ Made(c)
  <1> DEFINE more == But(c, <<>>, <<x>>)
  <1>1. /\ more \in Seq(S) /\ IsInjective(more)
        /\ Range(more) = IF Made(c) THEN {x} ELSE {}
    <2>1. x \in S
      BY DEF Range
    <2> QED
      BY <2>1, AppendedFacts
  <1> HIDE DEF more
  <1>2. IsInjective(keys \o more) <=> Range(keys) \cap Range(more) = {}
    BY <1>1, ConcatFacts
  <1> QED
    BY <1>1, <1>2 DEF more

\* Only the two changes that repeat a key repeat one.
LEMMA DuplicateKeys ==
    (\E i \in DOMAIN Mappings : ~ IsInjective(Mappings[i])) <=>
        Made("key-twice") \/ Made("nested-key-twice")
  <1> DEFINE top == <<"name", "services", "networks">>
             test == <<"test", "interval">>
             keys == REQUIRED_SERVICE_KEYS \ With("no-healthcheck", "healthcheck")
             Top == {"name", "services", "networks"}
             Test == {"test", "interval"}
  <1>1. top \in Seq(Top) /\ IsInjective(top) /\ "networks" \in Range(top)
    <2>1. top \in Seq(Top)
      OBVIOUS
    <2>2. DOMAIN top = 1..3
      OBVIOUS
    <2>3. top[1] = "name" /\ top[2] = "services" /\ top[3] = "networks"
      OBVIOUS
    <2> HIDE DEF top
    <2> QED
      BY <2>1, <2>2, <2>3 DEF IsInjective, Range
  <1>2. test \in Seq(Test) /\ IsInjective(test) /\ "test" \in Range(test)
    <2>1. test \in Seq(Test)
      OBVIOUS
    <2>2. DOMAIN test = 1..2
      OBVIOUS
    <2>3. test[1] = "test" /\ test[2] = "interval"
      OBVIOUS
    <2> HIDE DEF test
    <2> QED
      BY <2>1, <2>2, <2>3 DEF IsInjective, Range
  <1>3. IsInjective(SetToSeq(keys))
    <2>1. IsFiniteSet(keys)
      BY FiniteLists, FS_Difference
    <2> QED
      BY <2>1, SetToSeqFacts
  <1>4. DOMAIN Mappings = 1..3
        /\ Mappings[1] = top \o But("key-twice", <<>>, <<"networks">>)
        /\ Mappings[2] = SetToSeq(keys)
        /\ Mappings[3] = test \o But("nested-key-twice", <<>>, <<"test">>)
    BY DEF Mappings
  <1> HIDE DEF top, test, keys, Top, Test
  <1>5. IsInjective(Mappings[1]) <=> ~ Made("key-twice")
    <2>1. IsInjective(top \o But("key-twice", <<>>, <<"networks">>)) <=> ~ Made("key-twice")
      BY <1>1, RepeatedKey
    <2> QED
      BY <1>4, <2>1
  <1>6. IsInjective(Mappings[3]) <=> ~ Made("nested-key-twice")
    <2>1. IsInjective(test \o But("nested-key-twice", <<>>, <<"test">>))
             <=> ~ Made("nested-key-twice")
      BY <1>2, RepeatedKey
    <2> QED
      BY <1>4, <2>1
  <1>7. \A i \in 1..3 : i = 1 \/ i = 2 \/ i = 3
    OBVIOUS
  <1>8. (\E i \in DOMAIN Mappings : ~ IsInjective(Mappings[i])) <=>
           ~ IsInjective(Mappings[1]) \/ ~ IsInjective(Mappings[3])
    <2>1. IsInjective(Mappings[2]) /\ DOMAIN Mappings = 1..3
      BY <1>3, <1>4
    <2>2. 1 \in 1..3 /\ 3 \in 1..3
      OBVIOUS
    <2> QED
      BY <1>7, <2>1, <2>2
  <1> QED
    BY <1>5, <1>6, <1>8

\* The keys of the service lack nothing but what a change took away.
LEMMA ServiceKeys ==
    REQUIRED_SERVICE_KEYS \subseteq Range(Mappings[2]) <=> ~ Made("no-healthcheck")
  <1> DEFINE keys == REQUIRED_SERVICE_KEYS \ With("no-healthcheck", "healthcheck")
  <1>1. Mappings[2] = SetToSeq(keys)
    BY DEF Mappings
  <1>2. IsFiniteSet(keys)
    BY FiniteLists, FS_Difference
  <1>3. Range(SetToSeq(keys)) = keys
    BY <1>2, SetToSeqFacts
  <1>4. REQUIRED_SERVICE_KEYS \subseteq keys <=> ~ Made("no-healthcheck")
    BY DEF REQUIRED_SERVICE_KEYS, With, Made
  <1> QED
    BY <1>1, <1>3, <1>4

\* The variables of the environment, by what was done to its list.
LEMMA EnvironmentFacts ==
    /\ NULL \in Range(environment) <=> Made("malformed-entry")
    /\ ~ Made("malformed-entry") => (IsInjective(environment) <=> ~ Made("variable-twice"))
    /\ EXPECTED_ENV \subseteq Range(environment) <=> ~ Made("variable-missing")
    /\ FORBIDDEN_ENV \cap Range(environment) # {} <=> Made("certificate-variable")
  <1> DEFINE S == EXPECTED_ENV \cup FORBIDDEN_ENV \cup {NULL}
             names == EXPECTED_ENV \ With("variable-missing", "ADMIN_IDS")
             a == SetToSeq(names)
             b == But("malformed-entry", <<>>, <<NULL>>)
             c == But("variable-twice", <<>>, <<"WEBHOOK_URL">>)
             d == But("certificate-variable", <<>>, <<"WEBHOOK_CERT_PATH">>)
  <1>1. environment = ((a \o b) \o c) \o d
    BY DEF environment
  <1>2. a \in Seq(S) /\ IsInjective(a) /\ Range(a) = names
    <2>1. IsFiniteSet(names)
      BY FiniteLists, FS_Difference
    <2>2. a \in Seq(names) /\ IsInjective(a) /\ Range(a) = names
      BY <2>1, SetToSeqFacts
    <2> HIDE DEF a
    <2>3. Seq(names) \subseteq Seq(S)
      OBVIOUS
    <2> QED
      BY <2>2, <2>3
  <1>3. /\ b \in Seq(S) /\ IsInjective(b)
        /\ Range(b) = IF Made("malformed-entry") THEN {NULL} ELSE {}
    BY AppendedFacts
  <1>4. /\ c \in Seq(S) /\ IsInjective(c)
        /\ Range(c) = IF Made("variable-twice") THEN {"WEBHOOK_URL"} ELSE {}
    <2>1. "WEBHOOK_URL" \in S
      BY DEF EXPECTED_ENV
    <2> QED
      BY <2>1, AppendedFacts
  <1>5. /\ d \in Seq(S) /\ IsInjective(d)
        /\ Range(d) = IF Made("certificate-variable") THEN {"WEBHOOK_CERT_PATH"} ELSE {}
    <2>1. "WEBHOOK_CERT_PATH" \in S
      BY DEF FORBIDDEN_ENV
    <2> QED
      BY <2>1, AppendedFacts
  <1>6. \A x : x \in names <=> x \in EXPECTED_ENV /\ (x = "ADMIN_IDS" => ~ Made("variable-missing"))
    BY DEF With, Made
  <1>7. NULL # "WEBHOOK_URL" /\ NULL # "WEBHOOK_CERT_PATH" /\ NULL \notin EXPECTED_ENV
    BY VariableAssumption DEF EXPECTED_ENV, FORBIDDEN_ENV
  <1> HIDE DEF S, a, b, c, d, names
  <1>8. /\ a \o b \in Seq(S) /\ Range(a \o b) = Range(a) \cup Range(b)
        /\ IsInjective(a \o b) <=> Range(a) \cap Range(b) = {}
    BY <1>2, <1>3, ConcatFacts
  <1>9. /\ (a \o b) \o c \in Seq(S) /\ Range((a \o b) \o c) = Range(a \o b) \cup Range(c)
        /\ IsInjective((a \o b) \o c) <=> IsInjective(a \o b) /\ Range(a \o b) \cap Range(c) = {}
    <2>1. c \in Seq(S) /\ IsInjective(c)
      BY <1>4
    <2> DEFINE e == a \o b
    <2>2. e \in Seq(S)
      BY <1>8
    <2> HIDE DEF e
    <2>3. /\ e \o c \in Seq(S) /\ Range(e \o c) = Range(e) \cup Range(c)
          /\ IsInjective(e \o c) <=> IsInjective(e) /\ Range(e) \cap Range(c) = {}
      BY <2>1, <2>2, ConcatFacts
    <2> QED
      BY <2>3 DEF e
  <1>10. /\ Range(environment) = Range((a \o b) \o c) \cup Range(d)
         /\ IsInjective(environment) <=>
               IsInjective((a \o b) \o c) /\ Range((a \o b) \o c) \cap Range(d) = {}
    BY <1>1, <1>5, <1>9, ConcatFacts
  <1>11. Range(environment) = names \cup Range(b) \cup Range(c) \cup Range(d)
    BY <1>2, <1>8, <1>9, <1>10
  <1>12. ~ Made("malformed-entry") => (IsInjective(environment) <=> ~ Made("variable-twice"))
    <2>1. SUFFICES ASSUME ~ Made("malformed-entry")
                   PROVE  IsInjective(environment) <=> ~ Made("variable-twice")
      OBVIOUS
    <2>2. Range(b) = {} /\ IsInjective(a \o b) /\ Range(a \o b) = names
      BY <1>2, <1>3, <1>8, <2>1
    <2>3. names \cap Range(c) = {} <=> ~ Made("variable-twice")
      BY <1>4, <1>6 DEF EXPECTED_ENV
    <2>4. (names \cup Range(c)) \cap Range(d) = {}
      BY <1>4, <1>5, <1>6 DEF EXPECTED_ENV
    <2> QED
      BY <1>9, <1>10, <2>2, <2>3, <2>4
  <1>13. NULL \in Range(environment) <=> Made("malformed-entry")
    BY <1>3, <1>4, <1>5, <1>6, <1>7, <1>11
  <1>14. EXPECTED_ENV \subseteq Range(environment) <=> ~ Made("variable-missing")
    BY <1>3, <1>4, <1>5, <1>6, <1>7, <1>11 DEF EXPECTED_ENV
  <1>15. FORBIDDEN_ENV \cap Range(environment) # {} <=> Made("certificate-variable")
    BY <1>3, <1>4, <1>5, <1>6, <1>7, <1>11 DEF EXPECTED_ENV, FORBIDDEN_ENV
  <1> QED
    BY <1>12, <1>13, <1>14, <1>15

\* Nothing is excused in a compose file, but the network's name where no bot
\* is given.
LEMMA HiddenInCompose ==
    ASSUME changes \subseteq Changes["compose"]
    PROVE  \A c : c \in Hidden <=>
              c = "network-renamed" /\ Made("network-renamed") /\ Made("bot-not-given")
  <1>1. Changes["compose"] =
           Harmful("compose") \cup {"no-ports-published", "bot-not-given", "no-arguments"}
    BY DEF Changes, Breaks, Harmless, Blocks
  <1>2. Harmful("compose") \subseteq
           {"key-twice", "nested-key-twice", "image-falls-back"} \cup Noted \cup Fatal
    BY DEF Harmful, Breaks, ComposeBreaks, ComposeRule
  <1>3. /\ "README-deleted" \notin changes /\ "no-contents" \notin changes
        /\ "fenced-heading" \notin changes /\ "no-workflows" \notin changes
        /\ "Cyrillic" \notin changes /\ "orphan-linked" \notin changes
        /\ "orphan-added" \notin changes /\ "no-modules-listed" \notin changes
    BY <1>1, <1>2 DEF Noted, Fatal
  <1> QED
    BY <1>3 DEF Hidden, Moot, Missed, Made

\* Every rule, with the changes that have it found broken.
LEMMA FoundComposeRules ==
    ASSUME script = "compose", changes \subseteq Changes["compose"]
    PROVE  /\ Found \subseteq ComposeRule
           /\ \A r \in ComposeRule \ {"duplicate-key", "image-tag", "image-fallback",
                                      "network-renamed"} :
                 r \in Found <=> Made(r)
           /\ "network-renamed" \in Found <=> Made("network-renamed") /\ ~ Made("bot-not-given")
           /\ "duplicate-key" \in Found <=> Made("key-twice") \/ Made("nested-key-twice")
           /\ "image-tag" \in Found <=> Made("image-falls-back")
           /\ "image-fallback" \in Found <=> Made("image-falls-back")
  <1>1. Breaks[script] = ComposeBreaks /\ DOMAIN ComposeBreaks = ComposeRule
    BY DEF Breaks, ComposeBreaks
  <1>2. \A r \in ComposeRule :
           r \in Found <=>
              \E c \in ComposeBreaks[r] : Made(c) /\ (c # "network-renamed" \/ ~ Made("bot-not-given"))
    BY <1>1, FoundRule, HiddenInCompose
  <1>3. /\ "duplicate-key" \in ComposeRule /\ "image-tag" \in ComposeRule
        /\ "image-fallback" \in ComposeRule /\ "network-renamed" \in ComposeRule
    BY DEF ComposeRule, Noted
  <1>4. /\ ComposeBreaks["duplicate-key"] = {"key-twice", "nested-key-twice"}
        /\ ComposeBreaks["image-tag"] = {"image-falls-back"}
        /\ ComposeBreaks["image-fallback"] = {"image-falls-back"}
        /\ \A r \in ComposeRule \ {"duplicate-key", "image-tag", "image-fallback"} :
              ComposeBreaks[r] = {r}
    BY <1>3 DEF ComposeBreaks
  <1>5. Found \subseteq ComposeRule
    BY <1>1 DEF Found, BrokenBy
  <1>6. \A r \in ComposeRule \ {"duplicate-key", "image-tag", "image-fallback"} :
           r \in Found <=> Made(r) /\ (r # "network-renamed" \/ ~ Made("bot-not-given"))
    BY <1>2, <1>4
  <1> QED
    BY <1>2, <1>3, <1>4, <1>5, <1>6

\* What is noted is exact when nothing is fatal.
LEMMA NotesFind ==
    ASSUME script = "compose", changes \subseteq Changes["compose"], changes \cap Fatal = {}
    PROVE  Notes = Found
  <1>1. /\ "${IMAGE_TAG:?" \in image <=> ~ Made("image-falls-back")
        /\ "${IMAGE_TAG:-" \in image <=> Made("image-falls-back")
        /\ "quote" \in image <=> Made("image-quoted")
    BY DEF image, But, With, Made
  <1>2. ports \subseteq {"127.0.0.1"} <=> ~ Made("public-port")
    BY DEF ports, With, Without, Made
  <1>3. "bot-not-given" \in changes \/ net_name = "botkit_store" <=>
           ~ Made("network-renamed") \/ Made("bot-not-given")
    BY DEF net_name, But, Made
  <1>4. \A r : r \in Notes <=>
           \/ r \in {"not-hardened", "not-wired"} /\ Made(r)
           \/ r \in {"image-tag", "image-fallback"} /\ Made("image-falls-back")
           \/ r = "image-quoted" /\ Made("image-quoted")
           \/ r = "public-port" /\ Made("public-port")
           \/ r = "network-renamed" /\ Made("network-renamed") /\ ~ Made("bot-not-given")
    BY <1>1, <1>2, <1>3 DEF Notes, Unless, Made
  <1>5. \A c \in Fatal : ~ Made(c)
    BY DEF Made
  <1>6. ~ Made("key-twice") /\ ~ Made("nested-key-twice")
    BY <1>5 DEF Fatal
  <1>7. /\ ComposeRule = {"duplicate-key", "image-tag", "image-fallback"}
                         \cup Noted \cup (Fatal \ {"key-twice", "nested-key-twice"})
        /\ Noted = {"not-hardened", "image-quoted", "public-port", "network-renamed", "not-wired"}
        /\ Noted \cap Fatal = {}
    BY DEF ComposeRule, Noted, Fatal
  <1>8. \A r : r \in Found => r \in Notes
    BY <1>4, <1>5, <1>6, <1>7, FoundComposeRules
  <1>9. \A r : r \in Notes => r \in Found
    BY <1>4, <1>7, FoundComposeRules
  <1> QED
    BY <1>8, <1>9

\* The end of the validation: the first fatal problem, or all that was noted.
LEMMA ValidateFinds ==
    ASSUME script = "compose", changes \subseteq Changes["compose"], Validate,
           changes \cap {"mypy-plugin", "unreadable", "not-YAML", "key-twice",
                         "nested-key-twice"} = {}
    PROVE  IF changes \cap Fatal = {} THEN Ends(IF Found = {} THEN 0 ELSE 1, Found)
           ELSE \E p \in Found : Ends(1, {p})
  <1> DEFINE Late == {"no-services", "no-bot", "no-healthcheck", "environment-a-mapping",
                      "malformed-entry", "variable-twice", "variable-missing",
                      "certificate-variable", "certificate-volume", "no-service-network",
                      "no-top-network"}
  <1>1. changes \cap Fatal = {} <=> \A c \in Late : ~ Made(c)
    BY DEF Fatal, Made
  <1>2. \A c \in Late : Made(c) => c \in Found
    <2>1. \A c \in Late : c \in ComposeRule \ {"duplicate-key", "image-tag", "image-fallback",
                                              "network-renamed"}
      BY DEF ComposeRule, Fatal
    <2> QED
      BY <2>1, FoundComposeRules
  <1>3. \/ \E c \in Late : Made(c) /\ Ends(1, {c})
        \/ (\A c \in Late : ~ Made(c)) /\ Ends(IF Notes = {} THEN 0 ELSE 1, Notes)
    BY ServiceKeys, EnvironmentFacts DEF Validate, Stops, Made
  <1> HIDE DEF Late
  <1> QED
    BY <1>1, <1>2, <1>3, NotesFind

-----------------------------------------------------------------------------
(* The scripts, from the first step to the exit code.                      *)

CoverageInv ==
    script = "coverage" =>
        /\ pc \in {"load_floors", "load_report", "check", "ended"}
        /\ pc \in {"load_report", "check"} =>
              changes \cap {"no-floors", "floors-not-an-object"} = {}
        /\ pc = "check" => ReachedData

ComposeInv ==
    script = "compose" =>
        /\ pc \in {"read", "check_duplicates", "validate", "ended"}
        /\ pc \in {"check_duplicates", "validate"} =>
              ReachedData /\ changes \cap {"mypy-plugin", "unreadable", "not-YAML"} = {}
        /\ pc = "validate" => changes \cap {"key-twice", "nested-key-twice"} = {}

IInv ==
    /\ TypeOK
    /\ ContractInv
    /\ CoverageInv
    /\ ComposeInv
    /\ GreenIsEarned
    /\ ReportIsExact

LEMMA Scripts ==
    /\ DOMAIN Changes = {"contract", "coverage", "compose"}
    /\ DOMAIN Breaks["contract"] = ContractRule
    /\ DOMAIN Breaks["coverage"] = CoverageRule
    /\ DOMAIN Breaks["compose"] = ComposeRule
    /\ Blocks["contract"] = {"no-arguments", "no-root", "no-contract", "no-type", "unknown-type"}
    /\ Blocks["coverage"] =
          {"no-floors", "floors-not-an-object", "no-report", "report-not-JSON"}
    /\ Blocks["compose"] = {"no-arguments"}
  BY DEF Changes, Breaks, ContractBreaks, CoverageBreaks, ComposeBreaks, Blocks

\* The repositories TLC starts from are of the type stated.
LEMMA InitChanges ==
    ASSUME Init
    PROVE  /\ changes \in SUBSET Changes[script] /\ Cardinality(changes) <= MaxChanges
           /\ Possible
  <1>1. CASE changes = {}
    BY <1>1, FS_EmptySet, ChangesAssumption DEF Init
  <1>2. ASSUME NEW f \in [1..MaxChanges -> Changes[script]], changes = Range(f)
        PROVE  changes \in SUBSET Changes[script] /\ Cardinality(changes) <= MaxChanges
    <2>1. changes \subseteq Changes[script]
      BY <1>2 DEF Range
    <2>2. IsFiniteSet(1..MaxChanges) /\ Cardinality(1..MaxChanges) = MaxChanges
      BY ChangesAssumption, FS_Interval
    <2>3. f \in Surjection(1..MaxChanges, changes)
      BY <1>2 DEF Surjection, Range
    <2> QED
      BY <2>1, <2>2, <2>3, FS_Surjection
  <1> QED
    BY <1>1, <1>2 DEF Init

LEMMA InitIInv == Init => IInv
  <1> SUFFICES ASSUME Init PROVE IInv
    OBVIOUS
  <1>1. /\ script \in {"contract", "coverage", "compose"}
        /\ reported = {} /\ checked = FALSE /\ exit = NULL
    BY Scripts DEF Init
  <1>2. /\ script = "contract" => pc = "load_contract"
        /\ script = "coverage" => pc = "load_floors"
        /\ script = "compose" => pc = "read"
    BY <1>1 DEF Init
  <1>3. exit # 0
    BY <1>1, NullAssumption
  <1>4. TypeOK
    BY <1>1, <1>2, InitChanges, Scripts DEF TypeOK
  <1>5. ContractInv
    BY <1>1, <1>2 DEF ContractInv, ContractLabel
  <1> QED
    BY <1>1, <1>2, <1>3, <1>4, <1>5 DEF IInv, CoverageInv, ComposeInv, GreenIsEarned, ReportIsExact

\* A step that goes on.
LEMMA GoingOnKeeps ==
    ASSUME IInv, UNCHANGED <<inputs, exit>>, pc # "ended", pc' # "ended",
           reported' \subseteq DOMAIN Breaks[script], checked' \in BOOLEAN
    PROVE  TypeOK' /\ GreenIsEarned' /\ ReportIsExact'
  <1>1. script' = script /\ changes' = changes /\ Possible' = Possible /\ exit' = exit
    BY SameInputs
  <1>2. exit = NULL
    BY DEF IInv, TypeOK
  <1>3. TypeOK'
    BY <1>1, <1>2 DEF IInv, TypeOK
  <1> QED
    BY <1>1, <1>2, <1>3, NullAssumption DEF GreenIsEarned, ReportIsExact

\* Where nothing is found, every harmful change is hidden.
LEMMA NothingFound ==
    ASSUME Found = {}
    PROVE  changes \cap Harmful(script) \subseteq Moot \cup Missed
  <1>1. SUFFICES ASSUME NEW c \in changes, c \in Harmful(script)
                 PROVE  c \in Hidden
    BY DEF Hidden
  <1>2. PICK r \in DOMAIN Breaks[script] : c \in Breaks[script][r]
    BY <1>1 DEF Harmful
  <1> QED
    BY <1>2, FoundRule DEF Made

\* A step that ends the script.
LEMMA EndingKeeps ==
    ASSUME IInv, NEW code \in 0..2, NEW printed, Ends(code, printed),
           printed \subseteq DOMAIN Breaks[script],
           code = 0 => ReachedData /\ Found = {},
           ReachedData =>
              /\ printed \subseteq Found
              /\ IF script = "compose" /\ changes \cap Fatal # {}
                 THEN Cardinality(printed) = 1 /\ code = 1
                 ELSE printed = Found /\ code = (IF Found = {} THEN 0 ELSE 1)
    PROVE  IInv'
  <1>1. /\ pc' = "ended" /\ reported' = printed /\ exit' = code /\ checked' = checked
        /\ UNCHANGED inputs
    BY DEF Ends
  <1>2. /\ script' = script /\ changes' = changes /\ Possible' = Possible
        /\ Found' = Found /\ Hidden' = Hidden /\ ReachedData' = ReachedData
    BY <1>1, SameInputs
  <1>3. code # NULL
    BY NullAssumption
  <1>4. TypeOK'
    BY <1>1, <1>2, <1>3 DEF IInv, TypeOK
  <1>5. GreenIsEarned'
    <2>1. code = 0 => ReachedData /\ changes \cap Harmful(script) \subseteq Hidden
      BY NothingFound DEF Hidden
    <2> QED
      BY <1>1, <1>2, <2>1 DEF GreenIsEarned, Hidden, Harmful
  <1>6. ReportIsExact'
    BY <1>1, <1>2 DEF ReportIsExact
  <1>7. ContractInv' /\ CoverageInv' /\ ComposeInv'
    BY <1>1, <1>2 DEF ContractInv, ContractLabel, CoverageInv, ComposeInv
  <1> QED
    BY <1>4, <1>5, <1>6, <1>7 DEF IInv

\* A script that is kept from its data ends with a red exit code.
LEMMA BlockedKeeps ==
    ASSUME IInv, NEW code \in {1, 2}, Ends(code, {}), ~ ReachedData
    PROVE  IInv'
  BY EndingKeeps

\* A script that prints what is broken and nothing else.
LEMMA ExactKeeps ==
    ASSUME IInv, Ends(IF Found = {} THEN 0 ELSE 1, Found), ReachedData,
           script = "compose" => changes \cap Fatal = {}
    PROVE  IInv'
  <1>1. Found \subseteq DOMAIN Breaks[script]
    BY DEF Found, BrokenBy
  <1>2. (IF Found = {} THEN 0 ELSE 1) \in 0..2
    OBVIOUS
  <1> QED
    BY <1>1, <1>2, EndingKeeps

\* A fatal problem ends the validation and is all that is printed.
LEMMA FatalKeeps ==
    ASSUME IInv, script = "compose", changes \cap Fatal # {}, ReachedData,
           NEW p \in Found, Ends(1, {p})
    PROVE  IInv'
  <1>1. {p} \subseteq DOMAIN Breaks[script]
    BY DEF Found, BrokenBy
  <1>2. Cardinality({p}) = 1
    BY FS_Singleton
  <1> QED
    BY <1>1, <1>2, EndingKeeps

\* The script that is about to call a function is the one that has it.
LEMMA ScriptOfLabel ==
    ASSUME IInv
    PROVE  /\ pc \in ContractLabel \cup {"load_contract"} => script = "contract"
           /\ pc \in {"load_floors", "load_report", "check"} => script = "coverage"
           /\ pc \in {"read", "check_duplicates", "validate"} => script = "compose"
  <1>1. script \in {"contract", "coverage", "compose"}
    BY Scripts DEF IInv, TypeOK
  <1> QED
    BY <1>1 DEF IInv, ContractInv, CoverageInv, ComposeInv, ContractLabel

\* A function of check-repo-contract.py that keeps ContractInv and goes on.
LEMMA ContractGoesOn ==
    ASSUME IInv, script = "contract", pc # "ended",
           ContractInv', pc' # "ended", UNCHANGED <<inputs, exit>>, checked' \in BOOLEAN
    PROVE  IInv'
  <1>1. script' = script /\ Found' = Found
    BY SameInputs
  <1>2. reported' \subseteq DOMAIN Breaks[script]
    <2>1. pc' = "load_contract" => reported' = {}
      BY <1>1 DEF ContractInv
    <2>2. pc' \in ContractLabel => reported' \subseteq Found
      BY <1>1 DEF ContractInv
    <2>3. pc' \in ContractLabel \/ pc' = "load_contract"
      BY <1>1 DEF ContractInv
    <2> QED
      BY <2>1, <2>2, <2>3 DEF Found, BrokenBy
  <1>3. TypeOK' /\ GreenIsEarned' /\ ReportIsExact'
    BY <1>2, GoingOnKeeps
  <1> QED
    BY <1>1, <1>3 DEF IInv, CoverageInv, ComposeInv

LEMMA LoadContractKeeps == IInv /\ LoadContract => IInv'
  <1> SUFFICES ASSUME IInv, LoadContract PROVE IInv'
    OBVIOUS
  <1>1. pc = "load_contract" /\ script = "contract"
    BY ScriptOfLabel DEF LoadContract
  <1>2. CASE changes \cap Blocks[script] # {}
    <2>1. Ends(1, {}) \/ Ends(2, {})
      BY <1>1, <1>2, Scripts DEF LoadContract, CannotVerify
    <2> QED
      BY <1>2, <2>1, BlockedKeeps DEF ReachedData
  <1>3. CASE changes \cap Blocks[script] = {}
    <2>1. GoTo("check_required")
      BY <1>1, <1>3, Scripts DEF LoadContract
    <2>2. /\ pc' = "check_required" /\ UNCHANGED <<inputs, exit>>
          /\ reported' = reported /\ checked' = checked
      BY <2>1 DEF GoTo
    <2>3. script' = script /\ ReachedData' /\ reported' = {}
      BY <1>1, <1>3, <2>2, SameInputs DEF ReachedData, IInv, ContractInv
    <2>4. ContractInv'
      BY <2>2, <2>3, RulesBeforeTable DEF ContractInv, ContractLabel
    <2> QED
      BY <1>1, <2>2, <2>4, ContractGoesOn DEF IInv, TypeOK
  <1> QED
    BY <1>2, <1>3

LEMMA ContractVerdictKeeps == IInv /\ ContractVerdict => IInv'
  <1> SUFFICES ASSUME IInv, ContractVerdict PROVE IInv'
    OBVIOUS
  <1>1. pc = "contract-verdict" /\ pc \in ContractLabel /\ script = "contract"
    BY ScriptOfLabel DEF ContractVerdict, ContractLabel
  <1>2. ReachedData /\ reported = Found \cap ContractRule /\ (checked \/ reported # {})
    BY <1>1, RulesBeforeTable DEF IInv, ContractInv
  <1>3. reported = Found
    BY <1>1, <1>2, Scripts DEF Found, BrokenBy
  <1>4. Ends(IF Found = {} THEN 0 ELSE 1, Found)
    BY <1>2, <1>3 DEF ContractVerdict
  <1> QED
    BY <1>1, <1>2, <1>4, ExactKeeps

LEMMA LoadFloorsKeeps == IInv /\ LoadFloors => IInv'
  <1> SUFFICES ASSUME IInv, LoadFloors PROVE IInv'
    OBVIOUS
  <1>1. pc = "load_floors" /\ script = "coverage"
    BY ScriptOfLabel DEF LoadFloors
  <1>2. CASE changes \cap {"no-floors", "floors-not-an-object"} # {}
    <2>1. Ends(2, {}) /\ ~ ReachedData
      BY <1>1, <1>2, Scripts DEF LoadFloors, CannotVerify, ReachedData
    <2> QED
      BY <2>1, BlockedKeeps
  <1>3. CASE changes \cap {"no-floors", "floors-not-an-object"} = {}
    <2>1. /\ pc' = "load_report" /\ UNCHANGED <<inputs, exit>>
          /\ reported' = reported /\ checked' = checked
      BY <1>3 DEF LoadFloors, GoTo
    <2>2. script' = script /\ changes' = changes
      BY <2>1, SameInputs
    <2>3. TypeOK' /\ GreenIsEarned' /\ ReportIsExact'
      BY <1>1, <2>1, GoingOnKeeps DEF IInv, TypeOK
    <2> QED
      BY <1>1, <1>3, <2>1, <2>2, <2>3 DEF IInv, ContractInv, CoverageInv, ComposeInv
  <1> QED
    BY <1>2, <1>3

LEMMA LoadReportKeeps == IInv /\ LoadReport => IInv'
  <1> SUFFICES ASSUME IInv, LoadReport PROVE IInv'
    OBVIOUS
  <1>1. pc = "load_report" /\ script = "coverage"
    BY ScriptOfLabel DEF LoadReport
  <1>2. CASE changes \cap {"no-report", "report-not-JSON"} # {}
    <2>1. Ends(2, {}) /\ ~ ReachedData
      BY <1>1, <1>2, Scripts DEF LoadReport, CannotVerify, ReachedData
    <2> QED
      BY <2>1, BlockedKeeps
  <1>3. CASE changes \cap {"no-report", "report-not-JSON"} = {}
    <2>1. /\ pc' = "check" /\ UNCHANGED <<inputs, exit>>
          /\ reported' = reported /\ checked' = checked
      BY <1>3 DEF LoadReport, GoTo
    <2>2. script' = script /\ changes' = changes /\ ReachedData' = ReachedData
      BY <2>1, SameInputs
    <2>3. TypeOK' /\ GreenIsEarned' /\ ReportIsExact'
      BY <1>1, <2>1, GoingOnKeeps DEF IInv, TypeOK
    <2>4. ReachedData
      BY <1>1, <1>3, Scripts DEF IInv, CoverageInv, ReachedData
    <2> QED
      BY <1>1, <2>1, <2>2, <2>3, <2>4 DEF IInv, ContractInv, CoverageInv, ComposeInv
  <1> QED
    BY <1>2, <1>3

LEMMA CheckFloorsKeeps == IInv /\ CheckFloors => IInv'
  <1> SUFFICES ASSUME IInv, CheckFloors PROVE IInv'
    OBVIOUS
  <1>1. pc = "check" /\ script = "coverage"
    BY ScriptOfLabel DEF CheckFloors
  <1>2. ReachedData /\ Possible
    BY <1>1 DEF IInv, CoverageInv, TypeOK
  <1> QED
    BY <1>1, <1>2, CheckFloorsFinds, ExactKeeps

LEMMA ReadKeeps == IInv /\ Read => IInv'
  <1> SUFFICES ASSUME IInv, Read PROVE IInv'
    OBVIOUS
  <1>1. pc = "read" /\ script = "compose" /\ changes \subseteq Changes["compose"]
    BY ScriptOfLabel DEF Read, IInv, TypeOK
  <1> DEFINE First == {"mypy-plugin", "unreadable", "not-YAML"}
  <1>2. CASE ~ ReachedData
    <2>1. Ends(2, {})
      BY <1>1, <1>2, Scripts DEF Read, CannotVerify, ReachedData
    <2> QED
      BY <1>2, <2>1, BlockedKeeps
  <1>3. CASE ReachedData /\ changes \cap First # {}
    <2>1. PICK p \in changes \cap First : Ends(1, {p})
      BY <1>1, <1>3, Scripts DEF Read, Stops, ReachedData
    <2>2. p \in Found /\ p \in Fatal
      BY <1>1, <2>1, FoundComposeRules DEF ComposeRule, Fatal, Made
    <2> QED
      BY <1>1, <1>3, <2>1, <2>2, FatalKeeps
  <1>4. CASE ReachedData /\ changes \cap First = {}
    <2>1. /\ pc' = "check_duplicates" /\ UNCHANGED <<inputs, exit>>
          /\ reported' = reported /\ checked' = checked
      BY <1>1, <1>4, Scripts DEF Read, GoTo, ReachedData
    <2>2. script' = script /\ changes' = changes /\ ReachedData' = ReachedData
      BY <2>1, SameInputs
    <2>3. TypeOK' /\ GreenIsEarned' /\ ReportIsExact'
      BY <1>1, <2>1, GoingOnKeeps DEF IInv, TypeOK
    <2> QED
      BY <1>1, <1>4, <2>1, <2>2, <2>3 DEF IInv, ContractInv, CoverageInv, ComposeInv
  <1> QED
    BY <1>2, <1>3, <1>4

LEMMA CheckDuplicatesKeeps == IInv /\ CheckDuplicates => IInv'
  <1> SUFFICES ASSUME IInv, CheckDuplicates PROVE IInv'
    OBVIOUS
  <1>1. pc = "check_duplicates" /\ script = "compose" /\ changes \subseteq Changes["compose"]
    BY ScriptOfLabel DEF CheckDuplicates, IInv, TypeOK
  <1>2. ReachedData /\ changes \cap {"mypy-plugin", "unreadable", "not-YAML"} = {}
    BY <1>1 DEF IInv, ComposeInv
  <1>3. CASE Made("key-twice") \/ Made("nested-key-twice")
    <2>1. Ends(1, {"duplicate-key"})
      BY <1>3, DuplicateKeys DEF CheckDuplicates, Stops
    <2>2. "duplicate-key" \in Found /\ changes \cap Fatal # {}
      BY <1>1, <1>3, FoundComposeRules DEF Fatal, Made
    <2> QED
      BY <1>1, <1>2, <2>1, <2>2, FatalKeeps
  <1>4. CASE ~ Made("key-twice") /\ ~ Made("nested-key-twice")
    <2>1. /\ pc' = "validate" /\ UNCHANGED <<inputs, exit>>
          /\ reported' = reported /\ checked' = checked
      BY <1>4, DuplicateKeys DEF CheckDuplicates, GoTo
    <2>2. script' = script /\ changes' = changes /\ ReachedData' = ReachedData
      BY <2>1, SameInputs
    <2>3. TypeOK' /\ GreenIsEarned' /\ ReportIsExact'
      BY <1>1, <2>1, GoingOnKeeps DEF IInv, TypeOK
    <2>4. changes \cap {"key-twice", "nested-key-twice"} = {}
      BY <1>4 DEF Made
    <2> QED
      BY <1>1, <1>2, <2>1, <2>2, <2>3, <2>4 DEF IInv, ContractInv, CoverageInv, ComposeInv
  <1> QED
    BY <1>3, <1>4

LEMMA ValidateKeeps == IInv /\ Validate => IInv'
  <1> SUFFICES ASSUME IInv, Validate PROVE IInv'
    OBVIOUS
  <1>1. pc = "validate" /\ script = "compose" /\ changes \subseteq Changes["compose"]
    BY ScriptOfLabel DEF Validate, IInv, TypeOK
  <1>2. ReachedData /\ changes \cap {"mypy-plugin", "unreadable", "not-YAML", "key-twice",
                                    "nested-key-twice"} = {}
    BY <1>1 DEF IInv, ComposeInv
  <1>3. CASE changes \cap Fatal = {}
    BY <1>1, <1>2, <1>3, ValidateFinds, ExactKeeps
  <1>4. CASE changes \cap Fatal # {}
    BY <1>1, <1>2, <1>4, ValidateFinds, FatalKeeps
  <1> QED
    BY <1>3, <1>4

LEMMA StepIInv == IInv /\ [Next]_vars => IInv'
  <1> SUFFICES ASSUME IInv, [Next]_vars PROVE IInv'
    OBVIOUS
  <1> DEFINE ContractStep ==
          \/ CheckRequired \/ CheckReadme \/ CheckLinks
          \/ CheckOrphans \/ CheckCocSingleHome \/ CheckSecrets
  <1>1. ASSUME ContractStep PROVE IInv'
    <2>1. pc \in ContractLabel
      BY <1>1 DEF CheckRequired, CheckReadme, CheckLinks, CheckOrphans, CheckCocSingleHome,
                  CheckSecrets, ContractLabel
    <2>2. script = "contract" /\ ContractInv /\ Possible /\ pc # "ended"
      BY <2>1, ScriptOfLabel DEF IInv, TypeOK, ContractLabel
    <2>3. ContractInv' /\ pc' # "ended" /\ UNCHANGED <<inputs, exit>> /\ checked' \in BOOLEAN
      BY <1>1, <2>2, CheckRequiredNotes, CheckReadmeNotes, CheckLinksNotes, CheckOrphansNotes,
         CheckCocSingleHomeNotes, CheckSecretsNotes
    <2> QED
      BY <2>2, <2>3, ContractGoesOn
  <1>2. CASE UNCHANGED vars
    <2>1. /\ UNCHANGED inputs /\ pc' = pc /\ reported' = reported /\ checked' = checked
          /\ exit' = exit
      BY <1>2 DEF vars
    <2>2. /\ script' = script /\ changes' = changes /\ Possible' = Possible
          /\ Found' = Found /\ Hidden' = Hidden /\ ReachedData' = ReachedData
      BY <2>1, SameInputs
    <2>3. TypeOK' /\ GreenIsEarned' /\ ReportIsExact'
      BY <2>1, <2>2 DEF IInv, TypeOK, GreenIsEarned, ReportIsExact, Hidden, Harmful
    <2>4. ContractInv' /\ CoverageInv' /\ ComposeInv'
      <3>1. RulesBefore(pc)' = RulesBefore(pc)
        BY <2>1
      <3> QED
        BY <2>1, <2>2, <3>1 DEF IInv, ContractInv, CoverageInv, ComposeInv
    <2> QED
      BY <2>3, <2>4 DEF IInv
  <1> QED
    BY <1>1, <1>2, LoadContractKeeps, ContractVerdictKeeps, LoadFloorsKeeps, LoadReportKeeps,
       CheckFloorsKeeps, ReadKeeps, CheckDuplicatesKeeps, ValidateKeeps DEF Next

\* Each script, at every step, has noted the broken rules of those it has
\* applied, and has something to show for the checks it made.
THEOREM Invariant == Spec => []IInv
  BY InitIInv, StepIInv, PTL DEF Spec

\* Nothing but labels, codes and known violations is ever held or printed.
THEOREM ChecksTypeCorrect == Spec => []TypeOK
  <1>1. IInv => TypeOK
    BY DEF IInv
  <1> QED
    BY <1>1, Invariant, PTL

\* However many changes a commit makes, a script says "pass" only of a
\* repository it could read and of which every harmful change is moot or one
\* of the three that are missed: a dead anchor with a comment of its name in
\* a code block, a document that is named in one instead of linked, a report
\* without files where no module has a floor (its exit code is red still).
THEOREM GreenAlwaysEarned == Spec => []GreenIsEarned
  <1>1. IInv => GreenIsEarned
    BY DEF IInv
  <1> QED
    BY <1>1, Invariant, PTL

\* However many changes are made at once, the report names the rules that the
\* changes neither moot nor missed break, all of them and no other; but a
\* fatal problem of a compose file is reported alone, and what was noted
\* before it is dropped.
THEOREM ReportAlwaysExact == Spec => []ReportIsExact
  <1>1. IInv => ReportIsExact
    BY DEF IInv
  <1> QED
    BY <1>1, Invariant, PTL
=============================================================================
