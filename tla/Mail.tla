-------------------------------- MODULE Mail --------------------------------
(***************************************************************************)
(* The mailer (mail.c).  The messages of a player form a doubly linked     *)
(* chain whose head is in the hash table mail_htab; the text of a message  *)
(* is in a slot of mail_list, shared by all its recipients and counted.    *)
(* Both structures are kept exact by hand in purge, retract, expiration,   *)
(* debug and nuke, while recipients are destroyed and their dbrefs reused. *)
(*                                                                         *)
(* A text is a number: the n-th text written is n.  A message list of a    *)
(* command is Default (all of the current folder), All (every folder) or   *)
(* the number of one message.  One alias name stands for the mail aliases. *)
(*                                                                         *)
(* Left out: tags, urgency, receipts and the selection by age or sender,   *)
(* which only pick messages; folder names; displays and statistics; a text *)
(* that says "clear" (add_mail_message then returns -1).                   *)
(***************************************************************************)
EXTENDS Integers, Sequences, FiniteSets, SequencesExt

CONSTANTS
    Dbrefs,         \* the dbrefs of players, past and present
    GOD,
    Folders,        \* 0..MAX_FOLDERS in the code
    Scenarios,      \* a behaviour follows one of these: the groups of commands used, who
                    \* uses them, the lists of recipients typed (see NumList), and a
                    \* number of steps
    MALIAS_LEN,     \* 100 in the code; an alias holds one less
    MaxMail,        \* bound on the messages alive
    MaxSent,        \* bound on the texts written
    MaxTo           \* bound on the recipients of a draft, an alias, and on the aliases

NULL    == 0        \* no message, no text
NoEntry == -1       \* nothing under this key in mail_htab
Alias   == 0        \* the recipient "*alias"
Missing == -1       \* "This mail message does not exist in the database"
Junk    == -2       \* what load_mail makes of the end of dump_mail's "*** END OF DUMP ***"
Default == 0
All     == -1
Ids     == 1..MaxMail

ASSUME MailAssumption ==
    /\ GOD \in Dbrefs /\ Dbrefs \subseteq Nat \ {0}
    /\ 0 \in Folders /\ Folders \subseteq Nat
    /\ MALIAS_LEN \in Nat \ {0}
    /\ \A s \in Scenarios : s.steps \in Nat

VARIABLES
    post,       \* the post office: mail, htab, list, free and sent
    folder,     \* A_MAILCURF of each player
    draft,      \* the message each player is writing
    malias,     \* the aliases of that name: owner and list
    players,    \* the dbrefs that are of TYPE_PLAYER
    scenario,   \* the scenario of this behaviour
    left        \* steps left

vars == <<post, folder, draft, malias, players, scenario, left>>

ops == scenario.ops

NoMail == [to |-> NULL]         \* a struct mail that is not allocated
Live(s) == {id \in Ids : s.mail[id] # NoMail}
NoDraft == [on |-> FALSE, to |-> << >>, text |-> NULL]

Messages ==
    [to : Dbrefs, from : Dbrefs, number : Nat, text : Int,
     next : {NULL} \cup Ids, prev : {NULL} \cup Ids, fld : Folders,
     read : BOOLEAN, cleared : BOOLEAN, safe : BOOLEAN, old : BOOLEAN]

TypeOK ==
    /\ post.mail \in [Ids -> Messages \cup {NoMail}]
    /\ post.htab \in [Dbrefs -> {NoEntry, NULL} \cup Ids]
    /\ post.list \in Seq([text : Int, count : Nat])
    /\ post.free \in Nat /\ post.sent \in 0..MaxSent
    /\ folder \in [Dbrefs -> Folders]
    /\ \A d \in Dbrefs : draft[d].on \in BOOLEAN /\ draft[d].text \in Int
    /\ \A i \in DOMAIN malias :
        malias[i].owner \in Dbrefs /\ malias[i].list \in Seq(Dbrefs)
    /\ players \subseteq Dbrefs /\ scenario \in Scenarios
    /\ left \in 0..scenario.steps

-----------------------------------------------------------------------------
\* The texts: mail_list[n] is list[n + 1].

\* mail_db_grow
Grow(s, top) ==
    [s EXCEPT !.list = [i \in 1..Len(s.list) |-> s.list[i]] \o
        [i \in 1..(IF top > Len(s.list) THEN top - Len(s.list) ELSE 0) |->
            [text |-> NULL, count |-> 0]]]

\* make_mail_freelist
MakeFreelist(s) ==
    LET holes == {i \in DOMAIN s.list : s.list[i].text = NULL}
    IN  IF holes # {}
        THEN [s EXCEPT !.free = (CHOOSE i \in holes : \A j \in holes : i <= j) - 1]
        ELSE [Grow(s, Len(s.list) + 1) EXCEPT !.free = Len(s.list)]

SlotBlind(s) == IF s.list = << >> THEN Grow(s, 1) ELSE s

\* The slot add_mail_message takes: the one at mail_freelist if that is free.
Slot(s) ==
    LET g == IF s.list = << >> THEN Grow(s, 1) ELSE s
    IN  IF g.list[g.free + 1].text # NULL THEN MakeFreelist(g) ELSE g

\* add_mail_message; the number it returns is Slot(s).free.
AddMailMessage(s, text) ==
    LET g == Slot(s)
    IN  MakeFreelist([g EXCEPT !.list[g.free + 1].text = text])

\* delete_mail_message
DeleteMailMessage(s, number) ==
    LET rest == s.list[number + 1].count - 1
    IN  [s EXCEPT !.list[number + 1] =
            IF rest < 1 THEN [text |-> NULL, count |-> 0]
                         ELSE [@ EXCEPT !.count = rest]]

\* get_mail_message, for what it does when the text is gone.
GetMailMessage(s, number) ==
    IF s.list[number + 1].text = NULL THEN DeleteMailMessage(s, number) ELSE s

-----------------------------------------------------------------------------
\* The boxes.

\* nhashfind
Find(s, d) == IF s.htab[d] = NoEntry THEN NULL ELSE s.htab[d]

\* nhashrepl: nothing happens without an entry.
Replace(s, d, id) == IF s.htab[d] = NoEntry THEN s ELSE [s EXCEPT !.htab[d] = id]

\* The messages that a walk along next from id meets.  The walk ends, as does the
\* model, at memory that has been freed.
RECURSIVE Chain(_, _)
Chain(s, id) ==
    IF id = NULL THEN << >>
    ELSE IF s.mail[id] = NoMail THEN <<id>>
    ELSE <<id>> \o Chain(s, s.mail[id].next)

Box(s, d) == Chain(s, Find(s, d))

\* The messages i counts when it is the i-th of those that folder f shows.
Numbered(s, d, f, sel) ==
    LET shown == IF sel = All THEN Box(s, d)
                 ELSE SelectSeq(Box(s, d), LAMBDA id : s.mail[id].fld = f)
    IN  {shown[i] : i \in {j \in DOMAIN shown : sel \in {Default, All, j}}}

DiscardNoPrev(s, id, key) ==
    LET mp == s.mail[id]
        h  == IF mp.prev = NULL THEN Replace(s, key, mp.next) ELSE s
        linked == [x \in Ids |->
            IF x = id THEN NoMail
            ELSE IF x = mp.prev THEN [h.mail[x] EXCEPT !.next = mp.next]
            ELSE h.mail[x]]
    IN  DeleteMailMessage([h EXCEPT !.mail = linked], mp.number)

\* Unlinks and frees a message as purge, retract, expiration and debug do; key is the
\* hash key under which they look for the head.
Discard(s, id, key) ==
    LET mp == s.mail[id]
        h  == IF mp.prev = NULL THEN Replace(s, key, mp.next) ELSE s
        linked == [x \in Ids |->
            IF x = id THEN NoMail
            ELSE IF x = mp.prev THEN [h.mail[x] EXCEPT !.next = mp.next]
            ELSE IF x = mp.next THEN [h.mail[x] EXCEPT !.prev = mp.prev]
            ELSE h.mail[x]]
    IN  DeleteMailMessage([h EXCEPT !.mail = linked], mp.number)

\* Discards those of player d's messages that are in ids.
DiscardAll(s, d, ids) ==
    FoldLeft(LAMBDA t, id : IF id \in ids THEN Discard(t, id, d) ELSE t, s, Box(s, d))

\* Appends a message to the box it is addressed to: send_mail and load_mail.
Append_(s, msg) ==
    LET id   == CHOOSE x \in Ids \ Live(s) : \A y \in Ids \ Live(s) : x <= y
        box  == Box(s, msg.to)
        tail == IF box = << >> THEN NULL ELSE box[Len(box)]
    IN  [s EXCEPT
            !.mail = [x \in Ids |->
                IF x = id THEN [msg EXCEPT !.next = NULL, !.prev = tail]
                ELSE IF x = tail THEN [s.mail[x] EXCEPT !.next = id] ELSE s.mail[x]],
            !.htab[msg.to] = IF tail = NULL THEN id ELSE @,
            !.list[msg.number + 1].count = @ + 1]

Full(s) == Live(s) = Ids

\* send_mail.  The target's type is looked at only here.
SendMail(s, from, to, number, text) ==
    IF to \notin players THEN DeleteMailMessage(s, number)
    ELSE Append_(s, [to |-> to, from |-> from, number |-> number,
                     text |-> text,
                     next |-> NULL, prev |-> NULL, fld |-> 0, read |-> FALSE,
                     cleared |-> FALSE, safe |-> FALSE, old |-> FALSE])

-----------------------------------------------------------------------------
\* Writing.

\* get_malias for "*alias": the first of the player's own or God's.
Visible(p) == {i \in DOMAIN malias : malias[i].owner \in {p, GOD}}
GetMalias(p) == CHOOSE i \in Visible(p) : \A j \in Visible(p) : i <= j

Wizard(p) == p = GOD

\* What a player's list means to make_numlist: d the player d, Alias the alias and
\* -n the sender of message n of the current folder (All is not special here).
Replied(p, n) ==
    LET shown == SelectSeq(Box(post, p), LAMBDA id : post.mail[id].fld = folder[p])
    IN  IF n \in DOMAIN shown THEN {post.mail[shown[n]].from} ELSE {}

Known(p, item) ==
    \/ item > 0 /\ item \in players
    \/ item = Alias /\ "alias" \in ops /\ Visible(p) # {}
    \/ item < 0 /\ "reply" \in ops /\ Replied(p, -item) # {}

\* make_numlist of a list it accepts.
NumList(p, items) ==
    [i \in 1..Len(items) |->
        IF items[i] >= 0 THEN items[i] ELSE CHOOSE d \in Replied(p, -items[i]) : TRUE]

Accepted(p, items) == \A i \in DOMAIN items : Known(p, items[i])

\* do_malias_send: for a member that is no player God gets a complaint of its own.
MaliasSend(s, p, number, text) ==
    FoldLeft(LAMBDA t, d :
        IF d \in players THEN SendMail(t, p, d, number, text)
        ELSE LET c == AddMailMessage([t EXCEPT !.sent = @ + 1], t.sent + 1)
             IN  SendMail(c, GOD, GOD, Slot(t).free, t.sent + 1),
        s, malias[GetMalias(p)].list)

\* mail_to_list.  It stops at an alias that is gone.
MailToList(s, p, list, text) ==
    LET number == Slot(s).free
        gone   == {i \in DOMAIN list : list[i] = Alias /\ Visible(p) = {}}
        upto   == IF gone = {} THEN Len(list)
                  ELSE (CHOOSE i \in gone : \A j \in gone : i <= j) - 1
    IN  FoldLeft(LAMBDA t, d : IF d = Alias THEN MaliasSend(t, p, number, text)
                               ELSE SendMail(t, p, d, number, text),
                 AddMailMessage(s, text), SubSeq(list, 1, upto))

\* Room for everything a command may send, and for the texts it may write.
Room ==
    /\ Cardinality(Live(post)) + MaxTo + 1 <= MaxMail
    /\ post.sent + MaxTo + 1 <= MaxSent

\* do_mail_quick: @mail/quick
Quick(p, items) ==
    /\ ~draft[p].on /\ Accepted(p, items) /\ Room
    /\ post' = MailToList([post EXCEPT !.sent = @ + 1], p, NumList(p, items), post.sent + 1)
    /\ UNCHANGED <<folder, draft, malias, players>>

\* do_expmail_start: @mail <list>=<subject>
Start(p, items) ==
    /\ "draft" \in ops /\ ~draft[p].on /\ Accepted(p, items)
    /\ draft' = [draft EXCEPT ![p] = [on |-> TRUE, to |-> NumList(p, items), text |-> NULL]]
    /\ UNCHANGED <<post, folder, malias, players>>

\* do_mail_cc
Cc(p, items) ==
    /\ "draft" \in ops /\ draft[p].on /\ Accepted(p, items)
    /\ Len(draft[p].to) < MaxTo
    /\ draft' = [draft EXCEPT ![p].to = NumList(p, items) \o @]
    /\ UNCHANGED <<post, folder, malias, players>>

\* do_postpend, do_prepend and do_edit_msg: -<text>
Write(p) ==
    /\ draft[p].on /\ draft[p].text = NULL /\ post.sent < MaxSent
    /\ draft' = [draft EXCEPT ![p].text = post.sent + 1]
    /\ post' = [post EXCEPT !.sent = @ + 1]
    /\ UNCHANGED <<folder, malias, players>>

\* do_mail_fwd: the text of the message becomes that of the draft, of the one in
\* progress too when do_expmail_start refused to begin another.
Forward(p, n, items) ==
    /\ "draft" \in ops
    /\ LET shown == SelectSeq(Box(post, p), LAMBDA id : post.mail[id].fld = folder[p])
       IN  /\ n \in DOMAIN shown
           /\ draft[p].on \/ Accepted(p, items)
           /\ LET number == post.mail[shown[n]].number
                  text   == IF post.list[number + 1].text = NULL THEN Missing
                            ELSE post.list[number + 1].text
                  begun  == IF draft[p].on THEN draft[p]
                            ELSE [on |-> TRUE, to |-> NumList(p, items), text |-> NULL]
              IN  /\ draft' = [draft EXCEPT ![p] = [begun EXCEPT !.text = text]]
                  /\ post' = GetMailMessage(post, number)
    /\ UNCHANGED <<folder, malias, players>>

\* do_expmail_stop: "--", @mail/send and @mail/urgent.  An empty draft is dropped.
Stop(p) ==
    /\ draft[p].on /\ Room
    /\ post' = IF draft[p].text = NULL THEN post
               ELSE MailToList(post, p, draft[p].to, draft[p].text)
    /\ draft' = [draft EXCEPT ![p] = NoDraft]
    /\ UNCHANGED <<folder, malias, players>>

\* do_expmail_abort
Abort(p) ==
    /\ draft[p].on
    /\ draft' = [draft EXCEPT ![p] = NoDraft]
    /\ UNCHANGED <<post, folder, malias, players>>

-----------------------------------------------------------------------------
\* Reading, filing and deleting.

Flagged(s, ids, f(_)) ==
    [s EXCEPT !.mail = [x \in Ids |-> IF x \in ids THEN f(s.mail[x]) ELSE s.mail[x]]]

\* do_mail_read; "all" reads the current folder only.
Read(p, sel) ==
    LET ids == Numbered(post, p, folder[p], IF sel = All THEN Default ELSE sel)
        got == FoldLeft(LAMBDA t, id : IF id \in ids
                            THEN GetMailMessage(t, t.mail[id].number) ELSE t,
                        post, Box(post, p))
    IN  /\ ids # {}
        /\ post' = Flagged(got, ids, LAMBDA m : [m EXCEPT !.read = TRUE])
        /\ UNCHANGED <<folder, draft, malias, players>>

\* do_mail_flags with M_CLEARED
Cleared(s, d, f, sel, value) ==
    Flagged(s, Numbered(s, d, f, sel), LAMBDA m : [m EXCEPT !.cleared = value])

\* do_mail_clear and do_mail_unclear
Clear(p, sel, value) ==
    /\ Numbered(post, p, folder[p], sel) # {}
    /\ post' = Cleared(post, p, folder[p], sel, value)
    /\ UNCHANGED <<folder, draft, malias, players>>

\* do_mail_safe
Safe(p, sel) ==
    /\ "file" \in ops
    /\ Numbered(post, p, folder[p], sel) # {}
    /\ post' = Flagged(post, Numbered(post, p, folder[p], sel),
                       LAMBDA m : [m EXCEPT !.safe = TRUE])
    /\ UNCHANGED <<folder, draft, malias, players>>

\* do_mail_file
File(p, sel, f) ==
    /\ "file" \in ops
    /\ Numbered(post, p, folder[p], sel) # {}
    /\ post' = Flagged(post, Numbered(post, p, folder[p], sel),
                       LAMBDA m : [m EXCEPT !.fld = f])
    /\ UNCHANGED <<folder, draft, malias, players>>

\* do_mail_change_folder
ChangeFolder(p, f) ==
    /\ "file" \in ops
    /\ folder' = [folder EXCEPT ![p] = f]
    /\ UNCHANGED <<post, draft, malias, players>>

\* do_mail_purge
Purged(s, d) == DiscardAll(s, d, {id \in Live(s) : s.mail[id].cleared})

\* @mail/purge, and the end of the player's last connection
Purge(p) ==
    /\ post' = Purged(post, p)
    /\ UNCHANGED <<folder, draft, malias, players>>

\* do_mail_retract; the numbers count p's messages in the target's box.
Retract(p, target, sel) ==
    LET mine == SelectSeq(Box(post, target), LAMBDA id : post.mail[id].from = p)
        ids  == {mine[i] : i \in {j \in DOMAIN mine : sel \in {Default, All, j}}}
    IN  /\ target \in players /\ ids # {}
        /\ post' = DiscardAll(post, target, {id \in ids : ~post.mail[id].read})
        /\ UNCHANGED <<folder, draft, malias, players>>

\* The days of mail_expiration pass.
Days ==
    /\ "file" \in ops
    /\ post' = Flagged(post, Live(post), LAMBDA m : [m EXCEPT !.old = TRUE])
    /\ UNCHANGED <<folder, draft, malias, players>>

ExpiredAll(s) == {id \in Live(s) : s.mail[id].old}

\* The messages check_mail_expiration deletes.
Expired(s) == {id \in Live(s) : s.mail[id].old /\ ~s.mail[id].safe}

Ascending(S) == SetToSortSeq(S, <)

\* check_mail_expiration, before every dump
Expire ==
    /\ post' = FoldLeft(LAMBDA t, d : DiscardAll(t, d, Expired(post)), post,
                        Ascending(Dbrefs))
    /\ UNCHANGED <<folder, draft, malias, players>>

-----------------------------------------------------------------------------
\* Aliases.

\* do_malias_create with the names of those members
AliasCreate(p, members) ==
    /\ "alias" \in ops /\ Visible(p) = {} /\ Len(malias) < MaxTo
    /\ LET known == SelectSeq(members, LAMBDA d : d \in players)
       IN  malias' = Append(malias, [owner |-> p, list |->
                IF Len(known) < MALIAS_LEN THEN known ELSE SubSeq(known, 1, MALIAS_LEN - 1)])
    /\ UNCHANGED <<post, folder, draft, players>>

\* do_malias_add
AliasAdd(p, d) ==
    /\ "alias" \in ops /\ Visible(p) # {} /\ d \in players
    /\ LET m == malias[GetMalias(p)]
       IN  /\ m.owner = GOD => Wizard(p)
           /\ \A i \in DOMAIN m.list : m.list[i] # d
           /\ Len(m.list) < MALIAS_LEN - 1
    /\ malias' = [malias EXCEPT ![GetMalias(p)].list = Append(@, d)]
    /\ UNCHANGED <<post, folder, draft, players>>

\* do_malias_remove: of a member by name or by number, a destroyed one too.
AliasRemove(p, d) ==
    /\ "alias" \in ops /\ Visible(p) # {}
    /\ LET m == malias[GetMalias(p)]
       IN  /\ m.owner = GOD => Wizard(p)
           /\ \E i \in DOMAIN m.list :
                /\ m.list[i] = d
                /\ malias' = [malias EXCEPT ![GetMalias(p)].list = RemoveAt(m.list,
                        CHOOSE j \in 1..i : m.list[j] = d
                                         /\ \A k \in 1..(j - 1) : m.list[k] # d)]
    /\ UNCHANGED <<post, folder, draft, players>>

\* do_malias_chown
AliasChown(p, d) ==
    /\ "alias" \in ops /\ Visible(p) # {} /\ Wizard(p) /\ d \in players
    /\ malias' = [malias EXCEPT ![GetMalias(p)].owner = d]
    /\ UNCHANGED <<post, folder, draft, players>>

\* do_malias_delete
AliasDelete(p) ==
    /\ "alias" \in ops /\ Visible(p) # {}
    /\ malias[GetMalias(p)].owner = p \/ Wizard(p)
    /\ malias' = RemoveAt(malias, GetMalias(p))
    /\ UNCHANGED <<post, folder, draft, players>>

-----------------------------------------------------------------------------
\* Administration, destruction and restart.

\* do_mail_clear and do_mail_purge for somebody else: their current folder.
Wiped(s, d) == Purged(Cleared(s, d, folder[d], Default, TRUE), d)

\* do_mail_debug clear
DebugClear(d) ==
    /\ "admin" \in ops
    /\ post' = Wiped(post, d)
    /\ UNCHANGED <<folder, draft, malias, players>>

\* do_mail_debug fix by wizard p: messages to what is no player go, and a head is
\* looked for under the wizard's key.
DebugFix(p) ==
    /\ "admin" \in ops /\ Wizard(p)
    /\ post' = FoldLeft(LAMBDA t, d :
            FoldLeft(LAMBDA u, id : IF u.mail[id] # NoMail /\ u.mail[id].to \notin players
                                    THEN Discard(u, id, p) ELSE u,
                     t, Box(t, d)),
            post, Ascending(Dbrefs))
    /\ UNCHANGED <<folder, draft, malias, players>>

\* do_mail_nuke: the hash table is left as it is.
Nuke ==
    /\ "admin" \in ops
    /\ LET gone == UNION {{Box(post, d)[i] : i \in DOMAIN Box(post, d)} : d \in Dbrefs}
           freed == FoldLeft(LAMBDA t, id : DeleteMailMessage(t, t.mail[id].number), post,
                             Ascending(gone))
       IN  post' = [freed EXCEPT !.mail = [x \in Ids |-> IF x \in gone THEN NoMail ELSE @[x]]]
    /\ UNCHANGED <<folder, draft, malias, players>>

\* destroy_player (object.c), for what it does to the mail; the player's attributes go.
Destroy(d) ==
    /\ "destroy" \in ops /\ d \in players \ {GOD}
    /\ post' = Wiped(post, d)
    /\ folder' = [folder EXCEPT ![d] = 0]
    /\ draft' = [draft EXCEPT ![d] = NoDraft]
    /\ players' = players \ {d}
    /\ UNCHANGED malias

\* create_player, which takes the dbref of a destroyed object
Create(d) ==
    /\ d \notin players
    /\ players' = players \cup {d}
    /\ UNCHANGED <<post, folder, draft, malias>>

\* dump_mail, of the messages of those that are players, in the order of load_mail
Dumped(s) ==
    FoldLeft(LAMBDA q, d : IF d \in players THEN q \o Box(s, d) ELSE q, << >>,
             Ascending(Dbrefs))

LoadedShared(s) ==
    LET slots == [i \in 1..(Len(s.list) + 1) |->
            IF i > Len(s.list) \/ s.list[i].count < 2
            THEN [text |-> IF i = 1 THEN Junk ELSE NULL, count |-> 0]
            ELSE [text |-> IF s.list[i].text = NULL THEN Missing ELSE s.list[i].text,
                  count |-> 0]]
        empty == [mail |-> [x \in Ids |-> NoMail], htab |-> [d \in Dbrefs |-> NoEntry],
                  list |-> << >> \o slots, free |-> 0, sent |-> s.sent]
    IN  FoldLeft(LAMBDA t, id : Append_(t, s.mail[id]), empty, Dumped(s))

\* load_mail of what dump_mail wrote.  Counts are taken from the messages read, texts
\* are those whose count was not 0.  Its buffer holds 7 characters of the line that ends
\* the messages; the rest of that line it reads as the text of message 0, which stands
\* if no text of a message 0 follows.
Loaded(s) ==
    LET slots == [i \in 1..(Len(s.list) + 1) |->
            IF i > Len(s.list) \/ s.list[i].count < 1
            THEN [text |-> IF i = 1 THEN Junk ELSE NULL, count |-> 0]
            ELSE [text |-> IF s.list[i].text = NULL THEN Missing ELSE s.list[i].text,
                  count |-> 0]]
        empty == [mail |-> [x \in Ids |-> NoMail], htab |-> [d \in Dbrefs |-> NoEntry],
                  list |-> << >> \o slots, free |-> 0, sent |-> s.sent]
    IN  FoldLeft(LAMBDA t, id : Append_(t, s.mail[id]), empty, Dumped(s))

\* malias_read: the last alias takes the place of one whose owner is no player, and is
\* not looked at again.
RECURSIVE Compressed(_, _)
Compressed(m, i) ==
    IF i > Len(m) THEN m
    ELSE IF m[i].owner \in players THEN Compressed(m, i + 1)
    ELSE Compressed(SubSeq([m EXCEPT ![i] = m[Len(m)]], 1, Len(m) - 1), i + 1)

\* The server stops with a dump and starts again.
Restart ==
    /\ "restart" \in ops
    /\ post' = Loaded(post)
    /\ malias' = Compressed(malias, 1)
    /\ UNCHANGED <<folder, draft, players>>

-----------------------------------------------------------------------------
Init ==
    /\ post = [mail |-> [x \in Ids |-> NoMail], htab |-> [d \in Dbrefs |-> NoEntry],
               list |-> << >>, free |-> 0, sent |-> 0]
    /\ folder = [d \in Dbrefs |-> 0]
    /\ draft = [d \in Dbrefs |-> NoDraft]
    /\ malias = << >>
    /\ players = Dbrefs
    /\ scenario \in Scenarios
    /\ left = scenario.steps

Selections == {Default, All, 1, 2}

\* A command that changes nothing is no step.  A head or a next that leads to freed memory: what the code does then is undefined,
\* and the model stops.
Dangling ==
    \E d \in Dbrefs : \E i \in DOMAIN Box(post, d) : post.mail[Box(post, d)[i]] = NoMail

Command(p) ==
    \/ \E items \in scenario.lists : Quick(p, items) \/ Start(p, items) \/ Cc(p, items)
    \/ \E n \in 1..2, items \in scenario.lists : Forward(p, n, items)
    \/ Write(p) \/ Stop(p) \/ Abort(p) \/ Purge(p)
    \/ \E sel \in Selections :
        \/ Read(p, sel) \/ Safe(p, sel)
        \/ \E value \in BOOLEAN : Clear(p, sel, value)
        \/ \E f \in Folders : File(p, sel, f)
        \/ \E d \in Dbrefs : Retract(p, d, sel)
    \/ \E f \in Folders : ChangeFolder(p, f)
    \/ \E items \in scenario.lists : AliasCreate(p, items)
    \/ \E d \in Dbrefs : AliasAdd(p, d) \/ AliasRemove(p, d) \/ AliasChown(p, d)
    \/ AliasDelete(p) \/ DebugFix(p)

Next ==
    /\ left > 0 /\ ~Dangling
    /\ left' = left - 1 /\ UNCHANGED scenario
    /\ \/ \E p \in players \cap scenario.who : Command(p)
       \/ \E d \in Dbrefs : DebugClear(d) \/ Destroy(d) \/ Create(d)
       \/ Days \/ Expire \/ Nuke \/ Restart
    /\ <<post, folder, draft, malias, players>>' # <<post, folder, draft, malias, players>>

Spec == Init /\ [][Next]_vars

-----------------------------------------------------------------------------
\* Properties.  Each holds where the scenario lacks the commands named in it.

Lacks(S) == ~(S \subseteq ops)

\* No list of recipients can name somebody who has been destroyed since.
Addressed == Lacks({"destroy", "draft"}) /\ Lacks({"destroy", "reply"})

\* Every message is in exactly one box, that of the player it is addressed to, once, and
\* prev leads back along next: what every relinking in mail.c relies on when it takes
\* prev = NULL for the head.  (do_mail_nuke and do_mail_debug fix break it.)  A dbref that
\* is no player has no mail, so the next player created with it starts with an empty box
\* (unless mail was filed: destroy_player wipes only the current folder).
BoxesExact ==
    Lacks({"admin"}) =>
        /\ TypeOK
        /\ ~Dangling
        /\ \A id \in Live(post) : \E i \in DOMAIN Box(post, post.mail[id].to) :
                Box(post, post.mail[id].to)[i] = id
        /\ \A d \in Dbrefs : LET b == Box(post, d) IN \A i \in DOMAIN b :
            /\ post.mail[b[i]].to = d
            /\ post.mail[b[i]].prev = IF i = 1 THEN NULL ELSE b[i - 1]
        /\ Lacks({"destroy", "file"}) => \A d \in Dbrefs \ players : Box(post, d) = << >>

\* What a player reads is what was written to them: the slot of a message holds the text
\* it was sent with until the message is deleted, whatever happens to the other
\* recipients, to other messages and over restarts.
TextKept ==
    \A id \in Live(post) : post.list[post.mail[id].number + 1].text = post.mail[id].text

\* TextKept where nobody can be written to after their destruction; and there a slot of
\* mail_list counts the messages that use it, and has a text exactly while there are any:
\* no text is freed under a reader, none stays for good.  The exception is what load_mail
\* leaves in a slot 0 that was free (mail.c:1792, 1933-1943): it is never freed or used
\* again, but no message has it either, and it is nowhere else.
TextsExact ==
    Addressed =>
        /\ TextKept
        /\ \A i \in DOMAIN post.list : LET slot == post.list[i] IN
            /\ slot.count = Cardinality({id \in Live(post) : post.mail[id].number = i - 1})
            /\ slot.count > 0 => slot.text # NULL
            /\ slot.text = Junk => i = 1 /\ slot.count = 0
            /\ Lacks({"alias"}) /\ Lacks({"destroy", "file"}) =>
                    (slot.text \notin {NULL, Junk} => slot.count > 0)

\* What the boxes of the players show: not the numbers of the slots.
View(s) ==
    [d \in players |-> LET b == Box(s, d) IN
        [i \in DOMAIN b |-> LET m == s.mail[b[i]] IN
            <<m.from, s.list[m.number + 1].text, m.fld, m.read, m.cleared, m.safe, m.old>>]]

\* Whenever the server restarts every player has the same messages in the same order, in
\* the same folders, with the same flags and texts: what dump_mail leaves out (free
\* slots, counts, links) load_mail makes again.
RestartKeeps ==
    Lacks({"admin"}) /\ Addressed => View(Loaded(post)) = View(post)

\* A message that its addressee has read, marked safe and not cleared outlives everything
\* but that player's destruction and the administration: other players' retractions,
\* everybody's purges, expirations and restarts.
SafeKept ==
    [][Lacks({"admin"}) =>
        \A id \in Live(post) : LET m == post.mail[id] IN
            m.read /\ m.safe /\ ~m.cleared /\ m.to \in players \cap players' =>
                \E x \in Live(post') : post.mail'[x].text = m.text /\ post.mail'[x].to = m.to]_vars
=============================================================================
