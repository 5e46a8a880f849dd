----------------------------- MODULE CatalogEditor -----------------------------
(***************************************************************************)
(* The editor of the config file, internal/infra/catalog/editor: every     *)
(* operation of the settings pages reads the file, changes the parsed      *)
(* document and writes the whole of it back.  Nothing locks the file:      *)
(* operations of several windows overlap, and the application may end      *)
(* between the truncation of the file and the write.                       *)
(*                                                                         *)
(* A document maps every name to its entry.  An entry has a version (all   *)
(* the fields that are copied as they are), the disabled flag, and one     *)
(* optional field whose absence the editor and the loader read differently:*)
(* `required' of a plugin, `sessionTTLSeconds' of a stateful server.       *)
(***************************************************************************)
EXTENDS Naturals, FiniteSets

CONSTANTS
  Editors,      \* goroutines that call the editor
  ServerNames, PluginNames,
  Sections,     \* the parts the runtime editor writes, as one name each
  FirstFiles,   \* the documents the user may have written
  MaxEditCalls, \* bound: number of calls
  Absent, Unreadable, Truncated

Names == ServerNames \cup PluginNames \cup Sections
Versions == 1..2
Written == {"unset", "yes", "no", "zero", "some"}
Entries == [ver : Versions, off : BOOLEAN, opt : Written]
Documents == [Names -> Entries \cup {Absent}]

ASSUME EditorAssumption ==
  /\ FirstFiles \subseteq Documents
  /\ MaxEditCalls \in Nat
  /\ ServerNames \cap PluginNames = {} /\ Sections \cap (ServerNames \cup PluginNames) = {}
  /\ \A x \in {Absent, Unreadable, Truncated} : x \notin Entries \cup Documents

VARIABLES
  conf,      \* what the file holds: a document, Truncated, or Unreadable
  epc,       \* per editor: "idle", "read", "truncated"
  op,        \* per editor: the call
  merged,    \* per editor: the document it is going to write
  editCalls,
  wanted,    \* history: what the calls that succeeded asked the loader to read
  disturbed  \* history: two calls overlapped, or the application ended in one

edVars == <<conf, epc, op, merged, editCalls, wanted, disturbed>>

\* What the callers may ask for: the fields of domain.ServerSpec, of domain.PluginSpec or of
\* a section.
ServerSpecs == [ver : Versions, off : BOOLEAN, opt : {"zero", "some"}]
PluginSpecs == [ver : Versions, off : BOOLEAN, opt : {"yes", "no"}]
SectionSpecs == [ver : Versions, off : BOOLEAN, opt : {"unset"}]

ServerEdits == [do : {"create", "update"}, name : ServerNames, spec : ServerSpecs]
ServerChanges == [do : {"enable", "disable", "delete"}, name : ServerNames]
PluginEdits == [do : {"create", "update"}, name : PluginNames, spec : PluginSpecs]
PluginChanges == [do : {"enable", "disable", "delete"}, name : PluginNames]
SectionEdits == [do : {"runtime"}, name : Sections, spec : SectionSpecs]
Imports == [do : {"import"}, names : (SUBSET ServerNames) \ {{}}]
Requests == ServerEdits \cup ServerChanges \cup PluginEdits \cup PluginChanges \cup SectionEdits \cup Imports
NoRequest == [do |-> "none"]

\* The type invariant.
EDTypeOK ==
  /\ conf \in Documents \cup {Truncated, Unreadable}
  /\ epc \in [Editors -> {"idle", "read", "truncated"}]
  /\ op \in [Editors -> Requests \cup {NoRequest}]
  /\ merged \in [Editors -> Documents \cup {Unreadable}]
  /\ editCalls \in 0..MaxEditCalls
  /\ wanted \in Documents
  /\ disturbed \in BOOLEAN

--------------------------------------------------------------------------------
(* The conversions of one entry.                                           *)

\* serverSpecYAML omits a zero TTL; pluginSpecYAML always writes required.
ServerYAML(e) == IF e.opt = "zero" THEN [e EXCEPT !.opt = "unset"] ELSE e
PluginYAML(e) == e

\* A field that is not there has the zero value of the YAML structures.
ServerFromYAML(e) == IF e.opt = "unset" THEN [e EXCEPT !.opt = "zero"] ELSE e
PluginFromYAML(e) == IF e.opt = "unset" THEN [e EXCEPT !.opt = "no"] ELSE e

\* The loader: a plugin is required and a session of a stateful server ends after the
\* default TTL unless the file says otherwise.
NormalizeServer(e) == IF e.opt = "unset" THEN [e EXCEPT !.opt = "some"] ELSE e
NormalizePlugin(e) == IF e.opt = "unset" THEN [e EXCEPT !.opt = "yes"] ELSE e
Normalize(x, e) ==
  IF x \in PluginNames THEN NormalizePlugin(e) ELSE IF x \in ServerNames THEN NormalizeServer(e) ELSE e

Loaded(doc) == [x \in Names |-> IF doc[x] = Absent THEN Absent ELSE Normalize(x, doc[x])]
NoEntries == [x \in Names |-> Absent]

--------------------------------------------------------------------------------
(* The operations on a document: the documents a call may write, none if   *)
(* it is refused.  A list that is touched is parsed and written as a whole.*)

\* Mutant: the structure of a plugin has no field for the flag.
RereadEnabled(doc) ==
  [x \in Names |-> IF x \in PluginNames /\ doc[x] # Absent
                   THEN [PluginYAML(PluginFromYAML(doc[x])) EXCEPT !.off = FALSE] ELSE doc[x]]

RereadPlugins(doc) ==
  [x \in Names |-> IF x \in PluginNames /\ doc[x] # Absent
                   THEN PluginYAML(PluginFromYAML(doc[x])) ELSE doc[x]]
RereadServers(doc) ==
  [x \in Names |-> IF x \in ServerNames /\ doc[x] # Absent
                   THEN ServerYAML(ServerFromYAML(doc[x])) ELSE doc[x]]

\* normalizeEditorServerSpec gives a stateful server the default TTL for a zero one.
EditorServer(s) == IF s.opt = "zero" THEN [s EXCEPT !.opt = "some"] ELSE s
EditorPlugin(s) == s

CreateServer(doc, x, s) ==
  IF doc[x] = Absent THEN {[RereadServers(doc) EXCEPT ![x] = ServerYAML(s)]} ELSE {}
UpdateServer(doc, x, s) ==
  IF doc[x] # Absent THEN {[RereadServers(doc) EXCEPT ![x] = ServerYAML(s)]} ELSE {}
SetServerDisabled(doc, x, off) ==
  IF doc[x] # Absent THEN {[RereadServers(doc) EXCEPT ![x].off = off]} ELSE {}
DeleteServer(doc, x) ==
  IF doc[x] # Absent THEN {[RereadServers(doc) EXCEPT ![x] = Absent]} ELSE {}

CreatePlugin(doc, x, s) ==
  IF doc[x] = Absent THEN {[RereadPlugins(doc) EXCEPT ![x] = PluginYAML(s)]} ELSE {}
UpdatePlugin(doc, x, s) ==
  IF doc[x] # Absent THEN {[RereadPlugins(doc) EXCEPT ![x] = PluginYAML(s)]} ELSE {}
SetPluginDisabled(doc, x, off) ==
  IF doc[x] # Absent THEN {[RereadPlugins(doc) EXCEPT ![x].off = off]} ELSE {}
DeletePlugin(doc, x) ==
  IF doc[x] # Absent THEN {[RereadPlugins(doc) EXCEPT ![x] = Absent]} ELSE {}

\* The runtime editor leaves the lists as the file has them.
UpdateSection(doc, x, s) == {[doc EXCEPT ![x] = s]}

\* The defaults of normalizeImportServerSpec leave the TTL at zero.
Imported == [ver |-> 1, off |-> FALSE, opt |-> "zero"]
MergeServers(doc, names) ==
  IF \A x \in names : doc[x] = Absent
  THEN {[x \in Names |-> IF x \in names THEN ServerYAML(Imported) ELSE RereadServers(doc)[x]]}
  ELSE {}

Rewrites(doc, r) ==
  CASE r \in ServerEdits -> IF r.do = "create" THEN CreateServer(doc, r.name, EditorServer(r.spec))
                                               ELSE UpdateServer(doc, r.name, EditorServer(r.spec))
    [] r \in ServerChanges -> IF r.do = "delete" THEN DeleteServer(doc, r.name)
                                                 ELSE SetServerDisabled(doc, r.name, r.do = "disable")
    [] r \in PluginEdits -> IF r.do = "create" THEN CreatePlugin(doc, r.name, EditorPlugin(r.spec))
                                               ELSE UpdatePlugin(doc, r.name, EditorPlugin(r.spec))
    [] r \in PluginChanges -> IF r.do = "delete" THEN DeletePlugin(doc, r.name)
                                                 ELSE SetPluginDisabled(doc, r.name, r.do = "disable")
    [] r \in SectionEdits -> UpdateSection(doc, r.name, r.spec)
    [] r \in Imports -> MergeServers(doc, r.names)

\* What a call that succeeds means to change, and no more.
Intended(doc, r) ==
  CASE r.do \in {"create", "update", "runtime"} -> [doc EXCEPT ![r.name] = r.spec]
    [] r.do \in {"enable", "disable"} -> [doc EXCEPT ![r.name].off = (r.do = "disable")]
    [] r.do = "delete" -> [doc EXCEPT ![r.name] = Absent]
    [] r.do = "import" -> [x \in Names |-> IF x \in r.names THEN Imported ELSE doc[x]]

--------------------------------------------------------------------------------
EDInit ==
  /\ conf \in FirstFiles
  /\ epc = [e \in Editors |-> "idle"]
  /\ op = [e \in Editors |-> NoRequest]
  /\ merged = [e \in Editors |-> NoEntries]
  /\ editCalls = 0
  /\ wanted = Loaded(conf)
  /\ disturbed = FALSE

Busy(e) == \E f \in Editors \ {e} : epc[f] # "idle"
Ends(e) ==
  /\ epc' = [epc EXCEPT ![e] = "idle"]
  /\ op' = [op EXCEPT ![e] = NoRequest]
  /\ merged' = [merged EXCEPT ![e] = NoEntries]

\* The call passes its checks and reads the file; an empty file is an empty
\* document.  One that does not parse, or a name that exists or does not, ends
\* the call with an error and the file as it is, as invalid input does.
ReadConfig(e, r) ==
  /\ epc[e] = "idle" /\ editCalls < MaxEditCalls
  /\ editCalls' = editCalls + 1
  /\ conf # Unreadable
  /\ \E doc \in Rewrites(IF conf = Truncated THEN NoEntries ELSE conf, r) :
       merged' = [merged EXCEPT ![e] = doc]
  /\ epc' = [epc EXCEPT ![e] = "read"]
  /\ op' = [op EXCEPT ![e] = r]
  /\ disturbed' = (disturbed \/ Busy(e))
  /\ UNCHANGED <<conf, wanted>>

\* os.WriteFile truncates the file ...
TruncateConfig(e) ==
  /\ epc[e] = "read"
  /\ conf' = Truncated
  /\ epc' = [epc EXCEPT ![e] = "truncated"]
  /\ UNCHANGED <<op, merged, editCalls, wanted, disturbed>>

\* ... and writes from its start: over the longer document of another call that
\* leaves the end of that one, which need not parse.
WriteConfig(e) ==
  /\ epc[e] = "truncated"
  /\ conf' \in {merged[e]} \cup (IF conf \in {Truncated, merged[e]} THEN {} ELSE {Unreadable})
  /\ wanted' = IF disturbed THEN wanted ELSE Loaded(Intended(wanted, op[e]))
  /\ Ends(e)
  /\ UNCHANGED <<editCalls, disturbed>>

\* The write fails (the disk is full): the call ends with an error.
WriteFails(e) ==
  /\ epc[e] = "truncated"
  /\ disturbed' = TRUE
  /\ Ends(e)
  /\ UNCHANGED <<conf, editCalls, wanted>>

\* The application ends; the next one starts from the file as it is.
AppEnds ==
  /\ \E e \in Editors : epc[e] # "idle"
  /\ disturbed' = (disturbed \/ \E e \in Editors : epc[e] = "truncated")
  /\ epc' = [e \in Editors |-> "idle"]
  /\ op' = [e \in Editors |-> NoRequest]
  /\ merged' = [e \in Editors |-> NoEntries]
  /\ UNCHANGED <<conf, editCalls, wanted>>

EDNext ==
  \/ \E e \in Editors :
       \/ \E r \in Requests : ReadConfig(e, r)
       \/ TruncateConfig(e)
       \/ WriteConfig(e)
       \/ WriteFails(e)
  \/ AppEnds

EDSpec == EDInit /\ [][EDNext]_edVars

--------------------------------------------------------------------------------
EditorRests == \A e \in Editors : epc[e] # "truncated"
SameBut(a, b) ==
  (a = Absent) = (b = Absent) /\ (a # Absent => a.ver = b.ver /\ a.off = b.off)

\* As long as no two calls overlapped and none was cut short, the file parses
\* and says of every server, plugin and section what the calls that succeeded
\* asked for, one after the other: an edit of one entry (internal/infra/catalog/
\* editor/profile_editor.go) is not at the expense of another one.
EditsHold ==
  ~disturbed /\ EditorRests =>
    /\ conf \in Documents
    /\ \A x \in Names : SameBut(conf[x], wanted[x])

\* That, and the type invariant.
EditorInv == EDTypeOK /\ EditsHold

\* Toggling, creating or deleting one plugin leaves the others as required as
\* they were (docs/EXEC_PLANS/plugin-crud-and-toggle.md:70 has the toggle flip
\* `disabled').  The code does not: it parses the list into structures whose
\* absent `required' is false (profile_editor.go:58), where the loader takes it
\* for true (normalizer/plugin.go:52).
EditsKeepRequired ==
  ~disturbed /\ EditorRests =>
    \A x \in PluginNames :
      conf[x] # Absent => Normalize(x, conf[x]).opt = wanted[x].opt

================================================================================
