--------------------------- MODULE ContextAttribution ---------------------------
(***************************************************************************)
(* What a worker's recorded session is charged with: every part of the     *)
(* transcript that entered the model's history is given an origin, from    *)
(* the artifact it is, the files commands wrote, what was already          *)
(* delivered, and what the bytes look like (evals/_mlr_context.py,         *)
(* evals/_lineage.py).                                                     *)
(*                                                                         *)
(* A text is the set of its lines, a line one of a few that the form       *)
(* recognisers tell apart; every line counts as one unit, and as many      *)
(* opcode lines as make a rendering count as one line.  What was really    *)
(* read is kept beside, and the attribution never sees it.  Transcripts    *)
(* are attributed part by part in the order they were recorded.            *)
(***************************************************************************)
EXTENDS Naturals, Sequences, FiniteSets

CONSTANTS
  MaxParts,    \* bound: parts of a session
  MaxLines,    \* bound: lines a command prints or a model writes
  Nothing

VARIABLES
  fixture,     \* [arm, scratch]: whether the source is readable, where the worker keeps files
  scratch,     \* what is in the file the session writes
  reached,     \* whether an activity opened a source file of the module, or a text named one
               \* beside lines that look like it
  partsRead,   \* bound: parts attributed
  artifacts,   \* by path, the origin of what a command wrote there
  content,     \* by the lines of a component already delivered, its origin
  sourceLines, \* by source line already delivered, its origin
  shown,       \* the lines delivered so far, which the worker log holds
  charged,     \* by source line, what it was delivered as: [origin, settled]
  accounts     \* [source, reconstructed, unresolved, contradictions]

contextVars == <<fixture, scratch, reached, partsRead, artifacts, content, sourceLines, shown, charged,
                 accounts>>

Marks == {"docline", "srcline"}
Lines == Marks \cup {"opcodes", "namespace", "filename", "private", "prose"}
Forms == <<"source-form", "disassembly", "runtime-structure", "path-metadata">>
FormOfLine ==
  [l \in Lines |-> CASE l \in Marks -> "source-form" [] l = "opcodes" -> "disassembly"
                     [] l = "namespace" -> "runtime-structure" [] l = "filename" -> "path-metadata"
                     [] l \in {"private", "prose"} -> "other"]

\* in the order of their names, which settles ties
Origins == <<"application", "behaviour", "harness", "implementation-metadata",
             "implementation-runtime", "implementation-source", "model-derived", "other",
             "public-contract", "unresolved">>
Rank(o) == CHOOSE i \in DOMAIN Origins : Origins[i] = o
ImplementationOrigins ==
  {"implementation-source", "implementation-runtime", "implementation-metadata"}
Settling == {"implementation-source", "implementation-runtime", "public-contract"}
Containers == {"application", "harness"}
SettledBases == {"ancestry", "artifact-path", "author"}
Paths == {"module-file", "module-directory", "compiled", "contract-doc", "scratch", "log"}

ASSUME ContextAssumption ==
  /\ MaxParts \in Nat /\ MaxLines \in Nat
  /\ Nothing \notin Paths \cup {Origins[i] : i \in DOMAIN Origins} \cup {Forms[i] : i \in DOMAIN Forms}

-----------------------------------------------------------------------------
\* A text taken apart

Component(text, form) == {l \in text : FormOfLine[l] = form}
MaterialForms(text) == {f \in {Forms[i] : i \in DOMAIN Forms} : Component(text, f) # {}}
DominantForm(text) ==
  LET most == {i \in DOMAIN Forms : text # {} /\ 2 * Cardinality(Component(text, Forms[i]))
                                                     >= Cardinality(text)}
  IN IF most = {} THEN Nothing ELSE Forms[CHOOSE i \in most : \A j \in most : i <= j]
\* a name with a source file's stem, whether the file is the source or compiled
NamesSourceFile(text) == "filename" \in text
InternalHits(text) == text \cap {"srcline", "namespace", "private"} # {}

-----------------------------------------------------------------------------
\* Paths and commands

ClassifyFile(path) ==
  CASE path \in {"module-file", "module-directory"} -> "implementation-source"
    [] path = "compiled" -> "implementation-runtime"
    [] path = "contract-doc" -> "public-contract"
    [] path = "log" -> "harness"
    [] OTHER -> IF fixture.scratch = "workspace" THEN "application" ELSE "other"
IsModuleSourceFile(path) == path = "module-file"

\* paths: those it names; asks: what the markers in it ask for, of the module or by running it;
\* authored: it carries the text it writes
Command(paths, asks, authored) == [paths |-> paths, asks |-> asks, authored |-> authored]
Commands ==
  {Command({}, a, FALSE) : a \in {{}, {"documents", "runs"}, {"introspects"}, {"runs"}}}
    \cup {Command({"scratch"}, {}, FALSE), Command({}, {}, TRUE)}
    \cup IF fixture.arm = "full"
         THEN {Command({"module-file"}, {}, FALSE), Command({"module-directory"}, {}, FALSE)} ELSE {}

CommandRoute(c) ==
  IF c.paths \cap {"module-file", "module-directory"} # {} THEN "source-file"
  ELSE IF "documents" \in c.asks THEN "documentation"
  ELSE IF "introspects" \in c.asks THEN "introspection"
  ELSE IF "runs" \in c.asks THEN "run" ELSE "unknown"

\* what a file the command writes is noted as, if anything says
ArtifactOrigin(c) ==
  LET route == CommandRoute(c) IN
  CASE route = "source-file" /\ \E p \in c.paths : IsModuleSourceFile(p) -> "implementation-source"
    [] route \in {"introspection", "documentation"} -> "implementation-runtime"
    [] route = "run" -> "behaviour"
    [] OTHER -> IF c.authored THEN "model-derived" ELSE Nothing

Texts == {t \in SUBSET Lines : Cardinality(t) <= MaxLines}
Few(lines) == {t \in Texts : t \subseteq lines}
Written == Few({"docline", "srcline", "prose"})
\* what the command can print, which the attribution is not told
Prints(c) ==
  IF c.paths = {"scratch"} THEN {scratch} ELSE IF c.authored THEN Written ELSE
  Few(UNION {IF "module-file" \in c.paths THEN Marks \cup {"filename"} ELSE {},
             IF "module-directory" \in c.paths THEN {"filename"} ELSE {},
             IF c.paths \cup c.asks = {} /\ fixture.arm = "full" THEN Marks \cup {"filename"} ELSE {},
             IF "documents" \in c.asks THEN {"docline", "namespace", "filename"} ELSE {},
             IF "introspects" \in c.asks THEN {"opcodes", "namespace", "filename"} ELSE {},
             IF "runs" \in c.asks THEN {"private", "filename"} ELSE {},
             {"prose"}})

-----------------------------------------------------------------------------
\* One part, whatever the tool, as what entered the history

Inbound(kind, route, text) ==
  [kind |-> kind, route |-> route, text |-> text, author |-> FALSE, artifact |-> Nothing,
   referenced |-> {}, opened |-> {}, hint |-> Nothing]
NormaliseFile(tool, path, text) ==
  [Inbound("tool", IF tool = "read" THEN "source-file" ELSE "edit", text) EXCEPT
     !.artifact = path, !.referenced = {path}, !.opened = {path}]
NormaliseCommand(c, text) ==
  [Inbound("tool", CommandRoute(c), text) EXCEPT
     !.referenced = c.paths, !.opened = c.paths, !.hint = "command"]
\* the paths a search names are those of its answer
NormaliseSearch(paths, text) ==
  [Inbound("tool", "search", text) EXCEPT !.referenced = paths, !.hint = "command"]
NormaliseText(role, text) ==
  [Inbound(IF role = "user" THEN "user" ELSE "assistant", "unknown", text) EXCEPT
     !.author = role # "user", !.hint = IF role = "user" THEN "harness" ELSE Nothing]
NormalisePatch(text) == [Inbound("patch", "edit", text) EXCEPT !.hint = "application"]

CommandProvenance(route, text, openedSource) ==
  LET runtime == Component(text, "disassembly") \cup Component(text, "runtime-structure") # {}
      byForm == IF runtime THEN "implementation-runtime"
                ELSE IF NamesSourceFile(text) THEN "implementation-metadata" ELSE "other"
  IN CASE openedSource /\ Component(text, "source-form") # {} -> "implementation-source"
       [] ~openedSource /\ route \in {"documentation", "introspection"} ->
            IF InternalHits(text) THEN "implementation-runtime" ELSE "public-contract"
       [] ~openedSource /\ route = "run" -> "behaviour"
       [] OTHER -> byForm

\* as an earlier instrument had it: what looks like source is source
FormOriginOfBytes(form, requested, named) ==
  CASE form \in {"disassembly", "runtime-structure"} -> "implementation-runtime"
    [] form = "path-metadata" -> "implementation-metadata"
    [] OTHER -> "implementation-source"
\* what one component is, when neither the artifact nor an earlier delivery says
FormOrigin(form, requested, named) ==
  CASE form \in {"disassembly", "runtime-structure"} -> "implementation-runtime"
    [] form = "path-metadata" -> "implementation-metadata"
    [] OTHER ->
         IF requested \in Containers THEN "unresolved"
         ELSE IF named THEN "implementation-source"
         ELSE IF requested = "other" THEN "unresolved" ELSE requested

-----------------------------------------------------------------------------
\* What the session has established so far

\* a component is known again only as a whole
EchoOfDigest(lines) == IF lines \in DOMAIN content THEN content[lines] ELSE Nothing
\* by form, the origin of a component already delivered: the whole of it, or for source
\* the origin of most of the lines that were
EchoOf(lines) ==
  LET seen == {l \in lines : l \in DOMAIN sourceLines}
      tally(o) == Cardinality({l \in seen : sourceLines[l] = o})
      origins == {sourceLines[l] : l \in seen}
  IN IF lines \in DOMAIN content THEN content[lines]
     ELSE IF seen = {} THEN Nothing
     ELSE CHOOSE o \in origins : \A p \in origins :
            tally(o) > tally(p) \/ (tally(o) = tally(p) /\ Rank(o) >= Rank(p))
Echoes(text) == [f \in MaterialForms(text) |-> EchoOf(Component(text, f))]

SetDefault(f, keys, value) ==
  [k \in DOMAIN f \cup keys |-> IF k \in DOMAIN f THEN f[k] ELSE value[k]]
\* by component, not by item; an open question is not remembered
NoteContent(text, components) ==
  LET known == {f \in MaterialForms(text) : components[f] \notin {"other", "unresolved"}}
      form(lines) == CHOOSE f \in known : Component(text, f) = lines
      keys == {Component(text, f) : f \in known}
      marks == IF "source-form" \in known THEN Component(text, "source-form") ELSE {}
  IN /\ content' = SetDefault(content, keys, [k \in keys |-> components[form(k)]])
     /\ sourceLines' = SetDefault(sourceLines, marks, [m \in marks |-> components["source-form"]])

NoteArtifact(path, origin) == artifacts' = [artifacts EXCEPT ![path] = origin]

-----------------------------------------------------------------------------
\* The one table of precedence

\* [requested, basis, ancestry]
Evidence(in) ==
  LET openedSource == \E p \in in.opened : IsModuleSourceFile(p)
      location == IF in.artifact = Nothing THEN "other" ELSE ClassifyFile(in.artifact)
      inherited == {p \in in.referenced : artifacts[p] # Nothing}
      hint == IF in.hint = "command" THEN CommandProvenance(in.route, in.text, openedSource)
              ELSE IF in.hint = Nothing THEN "other" ELSE in.hint
      found(requested, basis, ancestry) ==
        [requested |-> requested, basis |-> basis, ancestry |-> ancestry]
  IN CASE inherited # {} -> found(location, "ancestry", artifacts[CHOOSE p \in inherited : TRUE])
       [] inherited = {} /\ location \in Settling -> found(location, "artifact-path", Nothing)
       [] inherited = {} /\ in.author -> found("model-derived", "author", Nothing)
       [] OTHER -> IF location # "other" \/ hint = "other" THEN found(location, "default", Nothing)
                   ELSE found(hint, IF openedSource THEN "artifact-path" ELSE "command-route", Nothing)

\* by material form, the origin its own evidence gives it
ComponentOrigins(e, text, echoed) ==
  [f \in MaterialForms(text) |->
     IF e.basis \in SettledBases THEN (IF e.ancestry # Nothing THEN e.ancestry ELSE e.requested)
     ELSE IF echoed[f] # Nothing THEN echoed[f]
     ELSE FormOrigin(f, e.requested, NamesSourceFile(text))]

\* what the item as a whole is called; only a form of the module speaks for the container
ItemOrigin(e, text, components) ==
  LET form == DominantForm(text) IN
  IF e.basis \in SettledBases THEN (IF e.ancestry # Nothing THEN e.ancestry ELSE e.requested)
  ELSE IF form \notin {Nothing, "path-metadata"} THEN components[form]
  ELSE IF e.requested # "other" THEN e.requested
  ELSE IF form # Nothing THEN components[form] ELSE "other"

ResolveOrigin(e, text, echoed) ==
  LET components == ComponentOrigins(e, text, echoed)
      origin == ItemOrigin(e, text, components)
      sources == {f \in DOMAIN components : components[f] = "implementation-source"}
      \* an origin of the module that no component carries is the item's as a whole
      whole == origin \in ImplementationOrigins /\ \A f \in DOMAIN components : components[f] # origin
      matched == Component(text, "source-form")
  IN [origin |-> origin, components |-> components, whole |-> whole,
      \* an artifact that is source counts throughout, anything else by its parts
      source |-> text # {} /\ \/ sources # {}
                              \/ origin = "implementation-source" /\ (whole \/ e.basis \in SettledBases),
      identity |-> IF matched # {} THEN matched ELSE text,
      reconstruction |-> IF "source-form" \in DOMAIN components
                            /\ components["source-form"] = "model-derived" THEN matched ELSE {}]

\* the item of a part, from its evidence and what the table made of it
Item(in, settled, r) ==
  LET implementation == r.whole \/ \E f \in DOMAIN r.components : r.components[f] \in ImplementationOrigins
      \* it discloses the interior and nothing says whence: a question, not a zero
      open == /\ in.kind \in {"tool", "user"} /\ InternalHits(in.text) /\ ~settled
              /\ r.origin \notin ImplementationOrigins /\ ~implementation
              /\ ~NamesSourceFile(in.text)
  IN [kind |-> in.kind, text |-> in.text, settled |-> settled,
      origin |-> IF open THEN "unresolved" ELSE r.origin,
      components |-> r.components, implementation |-> implementation,
      source |-> r.source, identity |-> r.identity, reconstruction |-> r.reconstruction]

Judge(in, e) ==
  Item(in, e.basis \in SettledBases, ResolveOrigin(e, in.text, Echoes(in.text)))
Resolve(in) == Judge(in, Evidence(in))

\* why an item's attribution is contradicted by what it delivered
Contradicted(i) ==
  /\ i.origin # "unresolved"
  /\ \/ \E f \in MaterialForms(i.text) : f \notin DOMAIN i.components
     \/ /\ i.origin = "implementation-source" /\ ~i.settled
        /\ Component(i.text, "source-form") = {}
     \/ /\ InternalHits(i.text) /\ ~i.settled /\ ~i.implementation
        /\ i.origin \notin ImplementationOrigins /\ ~NamesSourceFile(i.text)

\* source once by its lines however it was delivered, what the model wrote apart from it
SourceSeen(i) == accounts.source \cup (IF i.source THEN {i.identity} ELSE {})
ReconstructionSeen(i) ==
  accounts.reconstructed \cup (IF i.reconstruction # {} THEN {i.reconstruction} ELSE {})
Accounted(i) ==
  [source |-> SourceSeen(i),
   reconstructed |-> ReconstructionSeen(i),
   unresolved |-> \/ accounts.unresolved \/ i.origin = "unresolved"
                  \/ \E f \in DOMAIN i.components : i.components[f] = "unresolved",
   contradicted |-> accounts.contradicted \/ Contradicted(i)]

\* what the session has established after item i
Note(in, i) ==
  /\ partsRead' = partsRead + 1
  /\ NoteContent(in.text, i.components)
  /\ accounts' = Accounted(i)
  /\ shown' = shown \cup in.text
  /\ charged' = [l \in Marks |-> charged[l] \cup
                   IF l \in in.text
                   THEN {[origin |-> i.components["source-form"], settled |-> i.settled]} ELSE {}]
  /\ reached' = \/ reached \/ \E p \in in.opened : IsModuleSourceFile(p)
                \/ NamesSourceFile(in.text) /\ Component(in.text, "source-form") # {}
  /\ UNCHANGED fixture
Attribute(in) == \E i \in {Resolve(in)} : Note(in, i)

\* the session goes on
GoesOn == partsRead < MaxParts

-----------------------------------------------------------------------------
\* What a session can hold

ContextInit ==
  /\ fixture \in [arm : {"full", "contract"}, scratch : {"workspace", "outside"}]
  /\ scratch = {} /\ reached = FALSE /\ partsRead = 0
  /\ artifacts = [p \in Paths |-> Nothing]
  /\ content = [k \in {} |-> Nothing] /\ sourceLines = [k \in {} |-> Nothing]
  /\ shown = {} /\ charged = [l \in Marks |-> {}]
  /\ accounts = [source |-> {}, reconstructed |-> {}, unresolved |-> FALSE, contradicted |-> FALSE]

\* the log holds some of what was delivered; a file of the module is read whole or in part
ReadFile ==
  /\ GoesOn
  /\ \E path \in Paths \ {"module-directory"} :
       \E text \in CASE path = "module-file" -> SUBSET Marks \ {{}}
                     [] path \in {"contract-doc", "compiled"} -> {{"prose"}}
                     [] path = "scratch" -> {scratch}
                     [] path = "log" -> Few(shown) :
         /\ path = "module-file" => fixture.arm = "full"
         /\ Attribute(NormaliseFile("read", path, text))
         /\ UNCHANGED <<scratch, artifacts>>

\* the tool answers that the file was written
WriteFile ==
  /\ GoesOn
  /\ \E tool \in {"write", "edit"}, text \in Written :
       /\ Attribute(NormaliseFile(tool, "scratch", {"prose"}))
       /\ NoteArtifact("scratch", "model-derived")
       /\ scratch' = IF tool = "write" THEN text ELSE scratch \cup text

RunCommand ==
  /\ GoesOn
  /\ \E c \in Commands : \E text \in Prints(c) :
       /\ Attribute(NormaliseCommand(c, text))
       /\ UNCHANGED <<scratch, artifacts>>

\* only its shell answers; the ancestry is noted after the answer was judged, if it is known
RedirectCommand ==
  /\ GoesOn
  /\ \E c \in Commands : \E text \in Prints(c) :
       /\ "scratch" \notin c.paths
       /\ Attribute(NormaliseCommand(c, {}))
       /\ scratch' = text
       /\ IF ArtifactOrigin(c) # Nothing THEN NoteArtifact("scratch", ArtifactOrigin(c))
          ELSE UNCHANGED artifacts
Search ==
  /\ GoesOn
  /\ \E named \in SUBSET {"scratch"} :
       \E text \in Few(scratch \cup IF fixture.arm = "full" THEN Marks \cup {"filename"} ELSE {}) :
         /\ (text \cap scratch # {}) => named = {"scratch"} \/ fixture.arm = "full"
         /\ (text \cap Marks # {}) => "filename" \in text \/ named # {}
         /\ Attribute(NormaliseSearch(named, text))
         /\ UNCHANGED <<scratch, artifacts>>

Say ==
  /\ GoesOn
  /\ \E role \in {"user", "assistant"} : \E text \in Written \ {{}} :
       /\ Attribute(NormaliseText(role, text))
       /\ UNCHANGED <<scratch, artifacts>>

Patch ==
  /\ GoesOn
  /\ \E text \in {{"prose"}, {"filename"}} :
       /\ Attribute(NormalisePatch(text))
       /\ UNCHANGED <<scratch, artifacts>>

ContextNext ==
  ReadFile \/ WriteFile \/ RunCommand \/ RedirectCommand \/ Search \/ Say \/ Patch
ContextSpec == ContextInit /\ [][ContextNext]_contextVars

-----------------------------------------------------------------------------
\* Properties

\* A session is charged with the module's source only if one of its activities opened a
\* source file of the module, or a text named one beside lines that look like it; bytes that
\* merely match -- a docstring, the model's own line, a line quoted by the user -- never do.
ChargedMeansReached ==
  accounts.source # {} => reached

\* As long as every source-shaped line of a session was charged as the module's source, one
\* of them that comes back -- in the worker log, in part, printed by a command, quoted by the
\* user -- is charged as source again, unless the artifact or the author settles the text.
ReplayKeepsHistory ==
  [][(\A m \in Marks : \A c \in charged[m] : c.origin = "implementation-source") =>
       \A l \in Marks : charged[l] # {} =>
         \A c \in charged'[l] : c.settled \/ c.origin = "implementation-source"]_contextVars

\* A session whose arm has no source file is not charged with the module's source.
ContractChargesNoSource == fixture.arm = "contract" => accounts.source = {}
=============================================================================
