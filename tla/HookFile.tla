------------------------------- MODULE HookFile -------------------------------
(***************************************************************************)
(* The file of lifecycle hooks (adapters.py): `everrun hooks install` and    *)
(* `uninstall` load it, change the entry of one client and write it back.    *)
(* Nothing locks the file, and writing empties it first: two commands at a   *)
(* time lose an entry or leave text that no longer parses, and a command that *)
(* dies half way leaves an empty file, which every later one refuses to load. *)
(***************************************************************************)

CONSTANTS
    Editors,       \* processes that run a hooks command
    Clients,       \* agents that hooks are installed for
    NoFile,        \* there is no hook file yet
    Blank,         \* the file was emptied and not yet written
    Garbled        \* remains of two writers, not JSON

ASSUME HookConstantsOK ==
    /\ NoFile # Blank /\ NoFile # Garbled /\ Blank # Garbled
    /\ \A clients \in SUBSET Clients : clients \notin {NoFile, Blank, Garbled}

VARIABLES
    hooks,         \* the file: the clients that have an entry, or one of the above
    editor,        \* each process: its next step and its locals
    expected,      \* history: the clients installed, had commands never met
    disturbed      \* history: two commands overlapped, or one died while writing

hookVars == <<hooks, editor, expected, disturbed>>

NoEditor == [pc |-> "idle", install |-> FALSE, clients |-> {}, config |-> {}]
EditorLabels == {"idle", "loaded", "writing"}

HooksInit ==
    /\ hooks = NoFile
    /\ editor = [e \in Editors |-> NoEditor]
    /\ expected = {} /\ disturbed = FALSE

EditorAt(e, l) == editor[e].pc = l
Quiet(e) == \A f \in Editors \ {e} : EditorAt(f, "idle")

Applied(config, install, clients) ==
    IF install THEN config \cup clients ELSE config \ clients

\* Faulty variant: the configuration is begun afresh instead of loaded.
LoadedAfresh == {}

\* _load: an absent file is an empty configuration.
Loaded == IF hooks = NoFile THEN {} ELSE hooks

Loadable == hooks \notin {Blank, Garbled}

\* The configuration is read and changed; a file that does not parse raises.
LoadHooks(e, install, client) ==
    /\ EditorAt(e, "idle") /\ Loadable
    /\ editor' = [editor EXCEPT ![e] =
          [pc |-> "loaded", install |-> install, clients |-> {client},
           config |-> Applied(Loaded, install, {client})]]
    /\ disturbed' = (disturbed \/ ~Quiet(e))
    /\ UNCHANGED <<hooks, expected>>

TruncateHooks(e) ==
    /\ EditorAt(e, "loaded")
    /\ hooks' = Blank
    /\ editor' = [editor EXCEPT ![e].pc = "writing"]
    /\ UNCHANGED <<expected, disturbed>>

\* Where another command has written since the file was emptied, what is longer
\* than this text stays behind it.
WriteHooks(e) ==
    /\ EditorAt(e, "writing")
    /\ \/ hooks' = editor[e].config
       \/ hooks # Blank /\ hooks' = Garbled
    /\ expected' = Applied(expected, editor[e].install, editor[e].clients)
    /\ editor' = [editor EXCEPT ![e] = NoEditor]
    /\ UNCHANGED disturbed

DieEditing(e) ==
    /\ ~EditorAt(e, "idle")
    /\ disturbed' = (disturbed \/ EditorAt(e, "writing"))
    /\ editor' = [editor EXCEPT ![e] = NoEditor]
    /\ UNCHANGED <<hooks, expected>>

HooksNext ==
    \E e \in Editors :
        \/ \E install \in BOOLEAN, client \in Clients : LoadHooks(e, install, client)
        \/ TruncateHooks(e) \/ WriteHooks(e) \/ DieEditing(e)

-----------------------------------------------------------------------------
(* Properties                                                                *)

HooksTypeOK ==
    /\ hooks \in {NoFile, Blank, Garbled} \/ hooks \in SUBSET Clients
    /\ editor \in [Editors -> [pc : EditorLabels, install : BOOLEAN,
                               clients : SUBSET Clients, config : SUBSET Clients]]
    /\ expected \in SUBSET Clients
    /\ disturbed \in BOOLEAN

\* As long as no two commands overlap and none dies while writing, the file has
\* the hooks of the clients that were installed and not removed, whatever the
\* order of the commands and whichever died before it wrote.
HooksAreThoseInstalled ==
    ~disturbed =>
        \/ hooks = expected
        \/ hooks = NoFile /\ expected = {}
        \/ hooks = Blank /\ \E e \in Editors : EditorAt(e, "writing")
=============================================================================
