----------------------------- MODULE ConfigFile -----------------------------
(***************************************************************************)
(* `hermem admin keys` (src/internal/cli/admin/keys.go) edits hermem.ini   *)
(* line by line (src/internal/config/update.go); the server reads it back  *)
(* with a real parser (src/internal/config/ini.go).  The model keeps what  *)
(* either of them tells apart: section headings, `api_keys` lines with     *)
(* their entries, an `api_key` line, empty lines, and lines that are none  *)
(* of these.  An entry that an edit hung on a line of another kind is kept *)
(* there, since it spoils that line.  A file that ends with a newline ends *)
(* with an empty line, as strings.Split shows it.  The order of the        *)
(* entries of a line tells nothing, so they are a set.                     *)
(***************************************************************************)
EXTENDS Naturals, Sequences, FiniteSets

CONSTANTS Files,     \* files an operator may start from
          NewKeys,   \* entries that `keys add` generates: value, scope, label
          NewValues, \* values that `keys rotate` generates
          MaxEdits   \* bound on the commands

VARIABLES file,      \* the lines of hermem.ini; <<>> is a missing file
          told,      \* the entries the operator has been told are configured,
                     \* but for those that are lost
          used,      \* generated values already handed out (32 random bytes)
          edits,     \* commands so far
          lost,      \* history: added entries that the server does not find
          start      \* history: the file the operator started from

fileVars == <<file, told, used, edits, lost, start>>

Section(name) == [kind |-> "section", name |-> name, keys |-> {}]
KeysLine(ks)  == [kind |-> "keys", name |-> "", keys |-> ks]
Setting       == [kind |-> "setting", name |-> "", keys |-> {}]
Blank         == [kind |-> "blank", name |-> "", keys |-> {}]

Leading(places) == {i \in places : \A j \in places : i <= j}
Last(places)  == {i \in places : \A j \in places : j <= i}

-----------------------------------------------------------------------------
(* LoadConfig: a line belongs to the last heading above it, what follows a *)
(* heading's bracket is lost, a repeated key takes its last value, and the *)
(* list of keys is ignored when the section has an `api_key`.              *)
InSection(f, i, name) ==
    \E h \in 1..i : /\ f[h].kind = "section" /\ f[h].name = name
                    /\ \A j \in (h + 1)..i : f[j].kind # "section"
Of(f, kind) == {i \in DOMAIN f : f[i].kind = kind /\ InSection(f, i, "server")}
Loaded(f) == IF Of(f, "single") # {} THEN {} ELSE UNION {f[i].keys : i \in Last(Of(f, "keys"))}

(* RemoveKeyFromFile and RotateKeyInFile know a heading only when nothing  *)
(* follows its bracket.                                                    *)
Heading(line) == line.kind = "section" /\ line.keys = {}
Edited(f) == {i \in DOMAIN f : /\ f[i].kind = "keys"
                               /\ \E h \in 1..i : /\ Heading(f[h]) /\ f[h].name = "server"
                                                  /\ \A j \in (h + 1)..i : ~Heading(f[j])}
Matches(k, who) == who \in {k.value, k.label}

-----------------------------------------------------------------------------
Hang(f, i, k) == [f EXCEPT ![i] = [kind |-> f[i].kind, name |-> f[i].name, keys |-> f[i].keys \cup {k}]]

(* A new line of keys goes to the very end: on the last line if that has   *)
(* no newline, since insertKeyLine finds the heading itself.               *)
AtEnd(f, k) == IF f[Len(f)] = Blank THEN Append([f EXCEPT ![Len(f)] = KeysLine({k})], Blank)
               ELSE Append(Hang(f, Len(f), k), Blank)

(* AddKeyToFile and findOrCreateSection: what the file may become, which   *)
(* is one thing.  The index of the `api_keys` line is counted from the     *)
(* first heading [server] and used from the top of the file.               *)
Adding(f, k) ==
    LET ls == IF f = <<>> THEN <<Blank>> ELSE f
        heads == {i \in DOMAIN ls : ls[i].kind = "section" /\ ls[i].name = "server"}
        Below(h) == {i \in DOMAIN ls : ls[i].kind = "keys" /\ i >= h}
        closed == IF ls[Len(ls)] = Blank THEN ls ELSE Append(ls, Blank)
    IN IF heads = {} THEN {closed \o <<Section("server"), Blank, KeysLine({k}), Blank>>}
       ELSE UNION {IF Below(h) = {} THEN {AtEnd(ls, k)}
                   ELSE {Hang(ls, i - h + 1, k) : i \in Leading(Below(h))} : h \in Leading(heads)}

AddKey(k) == /\ k.value \notin used
             /\ file' \in Adding(file, k)
             /\ IF k \in Loaded(file') THEN told' = told \cup {k} /\ UNCHANGED lost
                ELSE lost' = lost \cup {k} /\ UNCHANGED told
             /\ used' = used \cup {k.value}
             /\ UNCHANGED start

(* The lines at some places, in their order.                               *)
Order(places) ==
    [n \in 1..Cardinality(places) |->
        CHOOSE i \in places : Cardinality({j \in places : j <= i}) = n]
At(f, places) ==
    {[n \in DOMAIN at |-> f[at[n]]] :
        at \in {g \in {Order(places)} :
                 /\ \A n \in DOMAIN g : g[n] \in places
                 /\ \A i \in places : \E n \in DOMAIN g : g[n] = i
                 /\ \A m, n \in DOMAIN g : m < n => g[m] < g[n]}}

(* A plausible bug: a line goes with the first of its entries that does.   *)
RemovingLines(f, who) == At(f, {i \in DOMAIN f : ~\E k \in f[i].keys : Matches(k, who)})

(* RemoveKeyFromFile: a line none of whose entries stays goes altogether.  *)
Removing(f, who) ==
    LET Kept(i) == {k \in f[i].keys : ~Matches(k, who)}
        thinned == [i \in DOMAIN f |-> IF i \in Edited(f) THEN KeysLine(Kept(i)) ELSE f[i]]
    IN  At(thinned, {i \in DOMAIN f : i \in Edited(f) => Kept(i) # {}})

RemoveKey(who) == /\ file # <<>>
                  /\ file' \in Removing(file, who)
                  /\ told' = {k \in told : ~Matches(k, who)}
                  /\ UNCHANGED <<used, lost, start>>

(* RotateKeyInFile: the value changes, scope and label stay.               *)
Rotated(k, who, v) == IF Matches(k, who) THEN [k EXCEPT !.value = v] ELSE k
Rotating(f, who, v) ==
    [i \in DOMAIN f |->
        IF i \in Edited(f) THEN KeysLine({Rotated(k, who, v) : k \in f[i].keys}) ELSE f[i]]

RotateKey(who, v) == /\ file # <<>>
                     /\ v \notin used
                     /\ file' = Rotating(file, who, v)
                     /\ told' = {Rotated(k, who, v) : k \in told}
                     /\ used' = used \cup {v}
                     /\ UNCHANGED <<lost, start>>

-----------------------------------------------------------------------------
Names == UNION {{k.value, k.label} : k \in told \cup lost}

FileInit == /\ file \in Files /\ start = file
            /\ told = Loaded(file) /\ lost = {}
            /\ used = {}
            /\ edits = 0

FileNext == /\ edits < MaxEdits
            /\ edits' = edits + 1
            /\ \/ \E k \in NewKeys : AddKey(k)
               \/ \E who \in Names : RemoveKey(who)
               \/ \E who \in Names, v \in NewValues : RotateKey(who, v)

FileSpec == FileInit /\ [][FileNext]_fileVars

-----------------------------------------------------------------------------
\* A file is a sequence of lines.
IsLines(f) == Len(f) \in Nat /\ f = [i \in 1..Len(f) |-> f[i]]

\* A file whose section has the list of keys once, as an ini file should.
Once(f) == \A i, j \in Of(f, "keys") : i = j

\* A heading [server] that an addition has hung an entry on.
Spoiled(f) == \E i \in DOMAIN f : f[i].kind = "section" /\ f[i].name = "server" /\ f[i].keys # {}

\* A file that begins with its [server] section, has no other and no
\* `api_key`, one line of keys at most, and a newline at the end.
ServerFirst(f) ==
    /\ IsLines(f) /\ Len(f) # 0
    /\ f[1] = Section("server") /\ f[Len(f)] = Blank
    /\ \A i \in 2..Len(f) : f[i] \in {Setting, Blank} \/ f[i] = KeysLine(f[i].keys)
    /\ \A i, j \in DOMAIN f : f[i].kind = "keys" /\ f[j].kind = "keys" => i = j

(* What the commands printed is what the next start of the server finds: a *)
(* rotated key keeps its scope and label, a revoked one is gone, no other  *)
(* changes, and an added one works with the scope it was given unless it   *)
(* is lost, which costs no other.  From there on it is not so only when an *)
(* addition spoiled the heading [server]: later commands do not find the   *)
(* section (update.go:9-144).                                              *)
KeysAsTold == Spoiled(file) \/ Loaded(file) = told

(* In a file that begins with [server] and has nothing after it, no added  *)
(* key is lost, and no command touches a line that is not a line of keys.  *)
OthersUntouched == \A i \in DOMAIN file : file[i].kind # "keys" => file[i].keys = {}
ConfigSound == /\ Once(start) => KeysAsTold
               /\ ServerFirst(start) => lost = {} /\ KeysAsTold /\ OthersUntouched

\* What every step keeps.
FileInv == /\ IsLines(file)
           /\ Once(start) => Once(file) /\ KeysAsTold
           /\ ServerFirst(start) => ServerFirst(file) /\ Loaded(file) = told /\ lost = {}

\* docs/SERVER.md:555: `keys add` "writes it to hermem.ini on the
\* `api_keys` line".  It does so only in files like the ones above.
NothingLost == lost = {}
=============================================================================
