----------------------------- MODULE Mailboxes ------------------------------
(***************************************************************************)
(* The mailboxes of an app's email service: rows of mailboxes, each with   *)
(* an account in docker-mailserver that `docker exec` commands create and  *)
(* delete.  Requests run at once; a command and the statement that goes    *)
(* with it are steps apart.                                                *)
(***************************************************************************)
EXTENDS Requests

CONSTANTS
    Addresses,      \* the addresses asked for
    NoAddress,      \* the address of no request
    MaxMailboxes,   \* Plan.MaxMailboxesPerApp
    MaxBoxes        \* bound on the requests

ASSUME MailboxesAssumption ==
    /\ NoAddress \notin Addresses
    /\ IsFiniteSet(Addresses)
    /\ MaxMailboxes \in Nat \ {0} /\ MaxBoxes \in Nat

VARIABLES
    service,    \* is the app's row of type email there?
    box,        \* box[m]: id of the row of address m, 0 if there is none
    acct,       \* acct[m]: the account in docker-mailserver
    ids,        \* how many requests there were; a row has the number of its request
    mreq,       \* mreq[c]: what client c's request is doing
    unseen,     \* history: the requests whose count of mailboxes failed
    marred      \* history: the addresses that two requests worked on at once, or where
                \* a command or a statement broke off half way and nobody mended it

mailVars == <<service, box, acct, ids, mreq, unseen, marred, crashes>>

\* blank: an account whose password was set to the empty string.
Account == {"none", "set", "blank"}
MailPlaces == {"idle", "add", "insert", "del", "delrow", "reset", "purge", "purgerows"}
NoMail == [at |-> "idle", addr |-> NoAddress, id |-> 0, left |-> {}]

MailInit ==
    /\ service = TRUE
    /\ box = [m \in Addresses |-> 0]
    /\ acct = [m \in Addresses |-> "none"]
    /\ ids = 0
    /\ mreq = [c \in Clients |-> NoMail]
    /\ unseen = {}
    /\ marred = {}
    /\ RequestsInit

Rows == {m \in Addresses : box[m] # 0}
Free(c) == mreq[c].at = "idle"
Begins(c) == Free(c) /\ ids < MaxBoxes /\ ids' = ids + 1
Rests(c) == mreq' = [mreq EXCEPT ![c] = NoMail]
Turns(c, at) == mreq' = [mreq EXCEPT ![c].at = at]
\* A removal of the service is about every address of the app.
About(c) == IF Free(c) THEN {}
            ELSE IF mreq[c].addr = NoAddress THEN Addresses ELSE {mreq[c].addr}
Meets(S) == marred' = marred \cup {m \in S : \E c \in Clients : m \in About(c)}
-----------------------------------------------------------------------------
\* MailboxHandler.Create: the plan's limit on the rows of the service.  The error of
\* the count is ignored, and the count is 0 then.
UnderMailboxLimit(counted) == ~counted \/ Cardinality(Rows) < MaxMailboxes

CreateBox(c, m) ==
    /\ Begins(c) /\ service
    /\ \E counted \in BOOLEAN :
           /\ UnderMailboxLimit(counted)
           /\ mreq' = [mreq EXCEPT ![c] = [NoMail EXCEPT !.at = "add", !.addr = m, !.id = ids + 1]]
           /\ unseen' = IF counted THEN unseen ELSE unseen \cup {ids + 1}
    /\ Meets({m})
    /\ UNCHANGED <<service, box, acct, crashes>>

\* A command or a statement breaks off half way: nobody tries it again.  What such a
\* command does later, when its request is over, is taken to be done at once: no
\* other address can tell.
Mars(c) == marred' = marred \cup About(c)

\* MailserverAddEmail, which refuses an address it has, and SetQuota, whose error
\* is ignored.
AddEmail(c) ==
    /\ mreq[c].at = "add" /\ acct[mreq[c].addr] = "none"
    /\ acct' = [acct EXCEPT ![mreq[c].addr] = "set"]
    /\ Turns(c, "insert")
    /\ UNCHANGED <<service, box, ids, unseen, marred, crashes>>

\* It fails, before or after it did its work.
AddFails(c) ==
    /\ mreq[c].at = "add"
    /\ \/ acct' = acct /\ marred' = marred
       \/ /\ acct[mreq[c].addr] = "none"
          /\ acct' = [acct EXCEPT ![mreq[c].addr] = "set"]
          /\ Mars(c)
    /\ Rests(c)
    /\ UNCHANGED <<service, box, ids, unseen, crashes>>

InsertBox(c) ==
    /\ mreq[c].at = "insert"
    /\ service /\ box[mreq[c].addr] = 0
    /\ box' = [box EXCEPT ![mreq[c].addr] = mreq[c].id]
    /\ Rests(c)
    /\ UNCHANGED <<service, acct, ids, unseen, marred, crashes>>

\* Slip: no rollback.
NotBlanked(old) == old

\* The "rollback" of a failed INSERT: update the password to the empty string.
Blanked(old) == IF old = "none" THEN old ELSE "blank"

\* The INSERT is refused (address taken, service gone) or fails for another reason,
\* the end of the request for one, which ends the "rollback" as well; its error is
\* ignored.
InsertFails(c) ==
    /\ mreq[c].at = "insert"
    /\ \/ acct' = [acct EXCEPT ![mreq[c].addr] = Blanked(@)] /\ marred' = marred
       \/ acct' = acct /\ Mars(c)
    /\ Rests(c)
    /\ UNCHANGED <<service, box, ids, unseen, crashes>>
-----------------------------------------------------------------------------
\* MailboxHandler.Delete and ResetPassword begin by reading the row.
ReadBox(c, m, at) ==
    /\ Begins(c) /\ box[m] # 0
    /\ mreq' = [mreq EXCEPT ![c] = [NoMail EXCEPT !.at = at, !.addr = m, !.id = box[m]]]
    /\ Meets({m})
    /\ UNCHANGED <<service, box, acct, unseen, crashes>>

DeleteBox(c, m) == ReadBox(c, m, "del")
ResetPassword(c, m) == ReadBox(c, m, "reset")

\* MailserverDeleteEmail; an error is logged and forgotten.
DelEmail(c) ==
    /\ mreq[c].at = "del"
    /\ \/ acct' = [acct EXCEPT ![mreq[c].addr] = "none"] /\ marred' = marred
       \/ acct' = acct /\ Mars(c)
    /\ Turns(c, "delrow")
    /\ UNCHANGED <<service, box, ids, unseen, crashes>>

DelRow(c) ==
    /\ mreq[c].at = "delrow"
    /\ \/ /\ box' = [m \in Addresses |-> IF box[m] = mreq[c].id THEN 0 ELSE box[m]]
          /\ marred' = marred
       \/ box' = box /\ Mars(c)
    /\ Rests(c)
    /\ UNCHANGED <<service, acct, ids, unseen, crashes>>

\* MailserverUpdatePassword; the mailserver has no such account, or it has.
NewPassword(c) ==
    /\ mreq[c].at = "reset"
    /\ acct' = [acct EXCEPT ![mreq[c].addr] = IF @ = "none" THEN @ ELSE "set"]
    /\ Rests(c)
    /\ UNCHANGED <<service, box, ids, unseen, marred, crashes>>

\* It fails, and the account may have a password that nobody was told.
ResetFails(c) ==
    /\ mreq[c].at = "reset"
    /\ Mars(c)
    /\ Rests(c)
    /\ UNCHANGED <<service, box, acct, ids, unseen, crashes>>
-----------------------------------------------------------------------------
\* Deprovision of the email service: list its mailboxes, delete each account,
\* delete the rows by service, delete the service's row.
DeleteService(c) ==
    /\ Begins(c) /\ service
    /\ mreq' = [mreq EXCEPT ![c] = [NoMail EXCEPT !.at = "purge", !.left = Rows]]
    /\ Meets(Addresses)
    /\ UNCHANGED <<service, box, acct, unseen, crashes>>

\* The list cannot be read: no account is deleted, and the service's row goes.
ListFails(c) ==
    /\ mreq[c].at = "purge"
    /\ Mars(c)
    /\ mreq' = [mreq EXCEPT ![c].at = "purgerows", ![c].left = {}]
    /\ UNCHANGED <<service, box, acct, ids, unseen, crashes>>

PurgeEmail(c, m) ==
    /\ mreq[c].at = "purge" /\ m \in mreq[c].left
    /\ \/ acct' = [acct EXCEPT ![m] = "none"] /\ marred' = marred
       \/ acct' = acct /\ marred' = marred \cup {m}
    /\ mreq' = [mreq EXCEPT ![c].left = @ \ {m}]
    /\ UNCHANGED <<service, box, ids, unseen, crashes>>

\* A failure of the first statement is only logged: the service's row goes, and its
\* mailboxes' rows with it.
PurgeRows(c) ==
    /\ mreq[c].at = "purge" /\ mreq[c].left = {}
    /\ \/ box' = [m \in Addresses |-> 0]
       \/ box' = box
    /\ Turns(c, "purgerows")
    /\ UNCHANGED <<service, acct, ids, unseen, marred, crashes>>

PurgeService(c) ==
    /\ mreq[c].at = "purgerows"
    /\ \/ service' = FALSE /\ box' = [m \in Addresses |-> 0] /\ marred' = marred
       \/ UNCHANGED <<service, box>> /\ Mars(c)
    /\ Rests(c)
    /\ UNCHANGED <<acct, ids, unseen, crashes>>

\* The service is added again; nothing is made on the mailserver for it.
AddService ==
    /\ ~service
    /\ service' = TRUE
    /\ UNCHANGED <<box, acct, ids, mreq, unseen, marred, crashes>>

\* What a request was doing to its addresses stays half done.
MailCrash ==
    /\ EngineDies
    /\ marred' = marred \cup UNION {About(c) : c \in Clients}
    /\ mreq' = [c \in Clients |-> NoMail]
    /\ UNCHANGED <<service, box, acct, ids, unseen>>

MailRequest(c) ==
    \/ \E m \in Addresses : CreateBox(c, m) \/ DeleteBox(c, m) \/ ResetPassword(c, m) \/ PurgeEmail(c, m)
    \/ AddEmail(c) \/ AddFails(c) \/ InsertBox(c) \/ InsertFails(c)
    \/ DelEmail(c) \/ DelRow(c) \/ NewPassword(c) \/ ResetFails(c)
    \/ DeleteService(c) \/ ListFails(c) \/ PurgeRows(c) \/ PurgeService(c)

MailNext == (\E c \in Clients : MailRequest(c)) \/ AddService \/ MailCrash
MailSpec == MailInit /\ [][MailNext]_mailVars
-----------------------------------------------------------------------------
MailTypeOK ==
    /\ service \in BOOLEAN
    /\ box \in [Addresses -> 0 .. MaxBoxes]
    /\ acct \in [Addresses -> Account]
    /\ ids \in 0 .. MaxBoxes
    /\ mreq \in [Clients -> [at : MailPlaces, addr : Addresses \cup {NoAddress},
                             id : 0 .. MaxBoxes, left : SUBSET Addresses]]
    /\ unseen \in SUBSET (1 .. MaxBoxes)
    /\ marred \in SUBSET Addresses

\* The plan's limit is checked on a count that is stale when the row is inserted; it
\* is overrun by no more than the requests that were counted at once, and by those
\* whose count failed.
Counted == {m \in Rows : box[m] \notin unseen}
MailboxLimit == Cardinality(Counted) <= MaxMailboxes + Cardinality(Clients) - 1

\* A mailbox that is listed can be logged into: unless two requests met on its
\* address, or a removal or a reset broke off half way, its account is there, with a
\* password the user was told, except while it is being deleted.
Deleting(m) == \E c \in Clients : mreq[c].at \in {"delrow", "purge", "purgerows"} /\ m \in About(c)
ListedBoxWorks == \A m \in Rows \ marred : acct[m] = "set" \/ Deleting(m)

\* An address nobody lists cannot be logged into: what the "rollback" of a creation
\* whose INSERT failed leaves behind has a blank password, if the command of the
\* rollback is not the next that fails.
Creating(m) == \E c \in Clients : mreq[c].at = "insert" /\ m \in About(c)
UnlistedIsDead == \A m \in Addresses \ (Rows \cup marred) : acct[m] # "set" \/ Creating(m)

\* What the table says of mailboxes and what the mail server has agree.
MailboxesAgree == MailboxLimit /\ ListedBoxWorks /\ UnlistedIsDead
=============================================================================
