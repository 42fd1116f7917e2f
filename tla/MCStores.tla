------------------------------ MODULE MCStores -------------------------------
(***************************************************************************)
(* Four components that share nothing but the engine they run in.  A       *)
(* behaviour exercises one of them, the focus, chosen at the start: their  *)
(* steps commute, so an interleaving of two would show nothing new.        *)
(***************************************************************************)
EXTENDS Services, Mailboxes, Backups, Shop, TLC

VARIABLE focus

stores == <<svcVars, mailVars, backupVars, shopVars, focus>>
Symmetry == Permutations(Clients)

Init == /\ ServicesInit /\ MailInit /\ BackupsInit /\ ShopInit
        /\ focus \in {"services", "mailboxes", "backups", "shop"}

ServicesStill == UNCHANGED <<apps, svc, server, late, seq, req, crossed>>
MailStill == UNCHANGED <<service, box, acct, ids, mreq, unseen, marred>>
BackupsStill == UNCHANGED <<bak, dir, running, proc, second, asks, touched, failed>>
ShopStill == UNCHANGED <<player, ledger, orders, goods, buy, begun, sold, broken, lied>>

Next ==
    /\ focus' = focus
    /\ \/ focus = "services" /\ ServicesNext /\ MailStill /\ BackupsStill /\ ShopStill
       \/ focus = "mailboxes" /\ MailNext /\ ServicesStill /\ BackupsStill /\ ShopStill
       \/ focus = "backups" /\ BackupsNext /\ ServicesStill /\ MailStill /\ ShopStill
       \/ focus = "shop" /\ ShopNext /\ ServicesStill /\ MailStill /\ BackupsStill

\* The components that are not exercised stay as they were.
View == <<focus, CASE focus = "services" -> svcVars
                   [] focus = "mailboxes" -> mailVars
                   [] focus = "backups" -> backupVars
                   [] focus = "shop" -> shopVars>>

Spec == Init /\ [][Next]_stores

StoresTypeOK ==
    /\ focus = "services" => ServicesTypeOK
    /\ focus = "mailboxes" => MailTypeOK
    /\ focus = "backups" => BackupsTypeOK
    /\ focus = "shop" => ShopTypeOK
=============================================================================
