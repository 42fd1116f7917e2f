----------------------------- MODULE GameClients -----------------------------
(***************************************************************************)
(* The clients of games on the players' machines.  The engine serves a     *)
(* client as the operator's zip (the base) with the server's address put   *)
(* into a few entries, whole or as a patch of those entries.  The launcher *)
(* extracts base and patch over each other, keeps the player's options,    *)
(* and stamps what it installed with the hashes of the catalog's card.     *)
(***************************************************************************)
EXTENDS Naturals

CONSTANTS
    MaxBases,      \* bound on the zips an operator publishes
    MaxMoves,      \* bound on changes of the address written into clients
    MaxOptions,    \* bound on saves of the player's options
    ZipOrders      \* the orders that zips may have their entries in

ClientTemplates == {"rakion", "metin2", "tibia", "priston", "muemu"}

\* One entry of each kind: the programs, game data that patches bring along, the
\* rest, the file that holds the address, the player's options.
Entries == {"exe", "data", "body", "endpoint", "options"}

ASSUME GameClientsAssumption ==
    /\ MaxBases \in Nat \ {0} /\ MaxMoves \in Nat /\ MaxOptions \in Nat
    /\ ZipOrders # {}
    /\ \A o \in ZipOrders : o \in [1 .. 5 -> Entries] /\ \A e \in Entries : \E i \in 1 .. 5 : o[i] = e

\* The entries that Write...ClientZip rewrites for the server ...
Rewrites(t) == IF t = "muemu" THEN {"exe", "endpoint"} ELSE {"endpoint"}
\* ... and those that Write...ClientPatch has.
PatchHas(t) == IF t = "muemu" THEN {"exe", "endpoint", "data"} ELSE {"endpoint"}

\* clientFilesReady
Required(t) ==
    CASE t = "metin2" -> {"exe", "endpoint"}
      [] t = "muemu"  -> {"exe", "data"}
      [] OTHER        -> {"exe"}

\* iniPath: the games whose options the launcher edits.
HasOptions(t) == t \in {"rakion", "metin2"}

VARIABLES
    template,      \* the game
    order,         \* the order of the entries in its zips
    base,          \* the zip that is published, counted; its hash has size and time
    there,         \* is it (operators also delete files)
    address,       \* the address and ports of the server
    card,          \* the card of the catalog the launcher shows
    disk,          \* what the install directory has
    stamp,         \* luxview-client.hash and luxview-base.hash, 0: not there
    cache,         \* cache[h]: the zip that is cached for base hash h, 0: none
    install,       \* what InstallGame is doing
    moves, options,\* how often the address changed, which options were saved last
    unstamped,     \* history: a first install ended without a stamp of its base
    optionsAtRisk  \* history: options met an install, or one that was killed

clientVars == <<template, order, base, there, address, card, disk, stamp, cache, install,
                moves, options, unstamped, optionsAtRisk>>

\* Entries on disk: the zip they are from, the address in them, the options saved.
Missing == [zip |-> 0, address |-> 0, saved |-> 0]
Torn == [zip |-> 0, address |-> 0, saved |-> MaxOptions + 1]
Plain(b) == [zip |-> b, address |-> 0, saved |-> 0]
Rewritten(b, a) == [zip |-> b, address |-> a, saved |-> 0]

FullZip(t, b, a) == [e \in Entries |-> IF e \in Rewrites(t) THEN Rewritten(b, a) ELSE Plain(b)]
BaseZip(b) == [e \in Entries |-> Plain(b)]

NoHash == [zip |-> 0, address |-> 0]
NoCard == [there |-> FALSE, client |-> NoHash, base |-> 0]
NotInstalling == [at |-> "idle", updating |-> FALSE, hashed |-> FALSE, whole |-> FALSE,
                  zip |-> BaseZip(0), todo |-> {}, kept |-> Missing]

\* clientRevision: the zip's hash and what is written into it.
Revision == [zip |-> base, address |-> address]
Ready == \A e \in Required(template) : disk[e] # Missing

ClientsInit ==
    /\ template \in ClientTemplates /\ order \in ZipOrders
    /\ base = 1 /\ there = TRUE /\ address = 1 /\ moves = 0
    /\ card = NoCard /\ install = NotInstalling
    /\ disk = [e \in Entries |-> Missing]
    /\ stamp = [client |-> NoHash, base |-> 0]
    /\ cache = [b \in 1 .. MaxBases |-> 0]
    /\ options = 0
    /\ unstamped = FALSE /\ optionsAtRisk = FALSE

Installing == install.at # "idle"
ServerStill == UNCHANGED <<template, order, base, there, address, moves>>
LauncherStill == UNCHANGED <<card, disk, stamp, cache, install, options, unstamped, optionsAtRisk>>
-----------------------------------------------------------------------------
\* UploadFile writes beside and renames: who reads the old zip keeps it.
UploadBase ==
    /\ base < MaxBases
    /\ base' = base + 1 /\ there' = TRUE
    /\ UNCHANGED <<template, order, address, moves>> /\ LauncherStill

DeleteBase ==
    /\ there /\ there' = FALSE
    /\ UNCHANGED <<template, order, base, address, moves>> /\ LauncherStill

\* A save of the game's settings that changes a port; it may be changed back.
MoveServer ==
    /\ moves < MaxMoves /\ moves' = moves + 1
    /\ address' = 3 - address
    /\ UNCHANGED <<template, order, base, there>> /\ LauncherStill

\* GetGames.  A card has no hashes when the zip was there and could not be hashed.
GetGames ==
    /\ ~Installing
    /\ \/ card' = [there |-> there, client |-> Revision, base |-> base]
       \/ there /\ card' = [there |-> TRUE, client |-> NoHash, base |-> 0]
    /\ ServerStill /\ UNCHANGED <<disk, stamp, cache, install, options, unstamped, optionsAtRisk>>

-----------------------------------------------------------------------------
\* Games whose patch leaves much out get the base again whenever they are updated.
\* Slip: none does.
NoneWhole(t) == FALSE
UpdatesWhole(t) == t \in {"tibia", "muemu"}

\* installSplitClient and shouldDownloadClientBase
NeedsBase ==
    \/ ~Ready
    \/ stamp.base # 0 /\ stamp.base # card.base
    \/ UpdatesWhole(template) /\ stamp.client # card.client

\* The launcher offers an install, or an update if the card has a hash.
Offered == ~Ready \/ (card.base # 0 /\ stamp.client # card.client)

InstallGame ==
    /\ ~Installing /\ card.there /\ Offered
    /\ install' = [NotInstalling EXCEPT
                      !.at = IF card.base = 0 THEN "full" ELSE IF NeedsBase THEN "base" ELSE "patch",
                      !.updating = Ready, !.hashed = card.base # 0, !.whole = NeedsBase]
    /\ ServerStill /\ UNCHANGED <<card, disk, stamp, cache, options, unstamped, optionsAtRisk>>

\* backupGameSettings reads the options before a zip is extracted.
Kept == IF install.updating /\ HasOptions(template) THEN disk["options"] ELSE Missing
Restored(d) == IF install.kept # Missing THEN [d EXCEPT !["options"] = install.kept] ELSE d
Extracts(z, entries, kept, next) ==
    install' = [install EXCEPT !.at = next, !.zip = z, !.kept = kept, !.todo = entries]

\* ensureClientBaseCache: cached under the card's hash, whatever was downloaded.
DownloadBase ==
    /\ install.at = "base"
    /\ LET z == IF cache[card.base] # 0 THEN cache[card.base] ELSE base IN
       /\ cache[card.base] = 0 => there
       /\ cache' = [cache EXCEPT ![card.base] = z]
       /\ Extracts(BaseZip(z), Entries, Kept, "unzip base")
    /\ ServerStill /\ UNCHANGED <<card, disk, stamp, options, unstamped, optionsAtRisk>>

DownloadFull ==
    /\ install.at = "full" /\ there
    /\ Extracts(FullZip(template, base, address), Entries, Kept, "unzip")
    /\ ServerStill /\ UNCHANGED <<card, disk, stamp, cache, options, unstamped, optionsAtRisk>>

\* The patch is made when it is asked for; the options are put back unless they were
\* put back after the base.
DownloadPatch ==
    /\ install.at = "patch" /\ there
    /\ Extracts(FullZip(template, base, address), PatchHas(template), IF install.whole THEN Missing ELSE Kept, "unzip")
    /\ ServerStill /\ UNCHANGED <<card, disk, stamp, cache, options, unstamped, optionsAtRisk>>

\* A zip is extracted in the order it has its entries in.
Position(e) == CHOOSE i \in 1 .. 5 : order[i] = e
Foremost == CHOOSE e \in install.todo : \A f \in install.todo : Position(e) <= Position(f)

Unzipping == install.at \in {"unzip base", "unzip"}

Unzip ==
    /\ Unzipping /\ install.todo # {}
    /\ disk' = [disk EXCEPT ![Foremost] = install.zip[Foremost]]
    /\ install' = [install EXCEPT !.todo = @ \ {Foremost}]
    /\ ServerStill /\ UNCHANGED <<card, stamp, cache, options, unstamped, optionsAtRisk>>

BaseUnzipped ==
    /\ install.at = "unzip base" /\ install.todo = {}
    /\ disk' = Restored(disk)
    /\ install' = [install EXCEPT !.at = "patch", !.zip = BaseZip(0), !.kept = Missing]
    /\ ServerStill /\ UNCHANGED <<card, stamp, cache, options, unstamped, optionsAtRisk>>

\* finishClientInstall.  A first install of Rakion is given the display options that
\* work; they are not the player's.
Unzipped ==
    /\ install.at = "unzip" /\ install.todo = {} /\ Ready
    /\ disk' = Restored(disk)
    /\ install' = [install EXCEPT !.at = "stamp client", !.zip = BaseZip(0), !.kept = Missing]
    /\ ServerStill /\ UNCHANGED <<card, stamp, cache, options, unstamped, optionsAtRisk>>

\* An empty hash is not saved.
StampClient ==
    /\ install.at = "stamp client"
    /\ stamp' = IF install.hashed THEN [stamp EXCEPT !.client = card.client] ELSE stamp
    /\ install' = [install EXCEPT !.at = "stamp base"]
    /\ ServerStill /\ UNCHANGED <<card, disk, cache, options, unstamped, optionsAtRisk>>

StampBase ==
    /\ install.at = "stamp base"
    /\ stamp' = IF install.hashed THEN [stamp EXCEPT !.base = card.base] ELSE stamp
    /\ install' = NotInstalling
    /\ unstamped' = (unstamped \/ ~install.hashed)
    /\ ServerStill /\ UNCHANGED <<card, disk, cache, options, optionsAtRisk>>

\* Three attempts to download, a file that is in use, a full disk.  The options are
\* put back; the entry that was being written may be cut off.
\* Slip: they are put back only when all went well.
BreaksOffBare ==
    /\ Installing
    /\ \/ disk' = disk
       \/ Unzipping /\ install.todo # {} /\ disk' = [disk EXCEPT ![Foremost] = Torn]
    /\ install' = NotInstalling
    /\ unstamped' = (unstamped \/ ~install.updating)
    /\ ServerStill /\ UNCHANGED <<card, stamp, cache, options, optionsAtRisk>>

BreaksOff ==
    /\ Installing
    /\ \/ disk' = Restored(disk)
       \/ Unzipping /\ install.todo # {} /\ disk' = Restored([disk EXCEPT ![Foremost] = Torn])
    /\ install' = NotInstalling
    /\ unstamped' = (unstamped \/ ~install.updating)
    /\ ServerStill /\ UNCHANGED <<card, stamp, cache, options, optionsAtRisk>>

\* The launcher is closed, or the machine.
Killed ==
    /\ Installing
    /\ \/ disk' = disk
       \/ Unzipping /\ install.todo # {} /\ disk' = [disk EXCEPT ![Foremost] = Torn]
    /\ install' = NotInstalling /\ card' = NoCard
    /\ unstamped' = (unstamped \/ ~install.updating)
    /\ optionsAtRisk' = (optionsAtRisk \/ Unzipping)
    /\ ServerStill /\ UNCHANGED <<stamp, cache, options>>

\* SaveSettings, SaveMetin2Settings: the dialog can be opened during an install.
SaveOptions ==
    /\ HasOptions(template) /\ disk["options"] # Missing /\ options < MaxOptions
    /\ options' = options + 1
    /\ disk' = [disk EXCEPT !["options"] = [@ EXCEPT !.saved = options + 1]]
    /\ optionsAtRisk' = (optionsAtRisk \/ Installing \/ disk["options"] = Torn \/ ~Ready)
    /\ ServerStill /\ UNCHANGED <<card, stamp, cache, install, unstamped>>

Publishes == UploadBase \/ DeleteBase \/ MoveServer
Installs ==
    \/ InstallGame \/ DownloadBase \/ DownloadFull \/ DownloadPatch
    \/ Unzip \/ BaseUnzipped \/ Unzipped \/ StampClient \/ StampBase \/ BreaksOff \/ Killed

ClientsNext == Publishes \/ GetGames \/ Installs \/ SaveOptions
ClientsSpec == ClientsInit /\ [][ClientsNext]_clientVars
-----------------------------------------------------------------------------
Entry == [zip : 0 .. MaxBases, address : 0 .. 2, saved : 0 .. MaxOptions + 1]
ClientsTypeOK ==
    /\ base \in 1 .. MaxBases /\ address \in 1 .. 2 /\ moves \in 0 .. MaxMoves
    /\ disk \in [Entries -> Entry] /\ install.kept \in Entry
    /\ install.todo \subseteq Entries
    /\ stamp.base \in 0 .. MaxBases /\ cache \in [1 .. MaxBases -> 0 .. MaxBases]
    /\ options \in 0 .. MaxOptions

\* The launcher offers no update when the stamp is the catalog's hash.  Then every
\* entry on disk is the one the engine would serve, however installs were broken off
\* and whatever was published meanwhile.  Two cases the code gets wrong are left out:
\* an address that was changed and changed back brings back the hash of a stamp that
\* a broken update may have left behind, and games that are updated by patch take
\* files without a stamp of their base, as a broken first install leaves them, for
\* all there is.
CameBack == moves >= 2
StampTellsFiles ==
    (~Installing /\ stamp.client = Revision /\ ~CameBack /\ (unstamped => template \in {"tibia", "muemu"}))
        => \A e \in Entries \ {"options"} : disk[e] = FullZip(template, base, address)[e]

\* The options a player saved outlive updates, also those that fail.
OptionsSurvive ==
    (~Installing /\ options > 0 /\ ~optionsAtRisk) => disk["options"].saved = options
=============================================================================
