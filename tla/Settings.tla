------------------------------ MODULE Settings ------------------------------
(***************************************************************************)
(* The settings of client and tracker: their tables (Cconfig), the file    *)
(* they are kept in (Cconfig_base), the tracker's read_config, which reads *)
(* them anew once a minute, the setters of the client and its options      *)
(* dialog, which shows some of them in other units.                        *)
(*                                                                         *)
(* A configuration has a function from names to values for each type, and  *)
(* sets for the names that may come more than once.  Texts are codes, as   *)
(* in Texts; a known word of a text is one code above 255.                 *)
(***************************************************************************)
EXTENDS Texts

LOCAL Greater(a, b) == IF a > b THEN a ELSE b

Folder == [XBT |-> 2000, Completes |-> 2001, Incompletes |-> 2002, Torrents |-> 2003, xbt |-> 2004]
None0  == [x \in {} |-> <<>>]

ClientTable ==
  [bool   |-> [bind_before_connect |-> FALSE, log_peer_connect_failures |-> FALSE,
               log_peer_connection_closures |-> FALSE, log_peer_recv_failures |-> FALSE,
               log_peer_send_failures |-> FALSE, log_piece_valid |-> FALSE,
               send_stop_event |-> FALSE, upnp |-> TRUE],
   int    |-> [admin_port |-> 6879, peer_limit |-> 0, peer_port |-> 6881, seeding_ratio |-> 0,
               torrent_limit |-> 0, torrent_upload_slots_max |-> 0, torrent_upload_slots_min |-> 0,
               upload_rate |-> 0, upload_slots |-> 8],
   string |-> [admin_user |-> <<Folder.xbt>>, admin_pass |-> <<>>, completes_dir |-> <<Folder.Completes>>,
               incompletes_dir |-> <<Folder.Incompletes>>, peer_id_prefix |-> <<>>, public_ipa |-> <<>>,
               torrents_dir |-> <<Folder.Torrents>>, user_agent |-> <<>>],
   sets   |-> None0]

TrackerTable ==
  [bool   |-> [auto_register |-> FALSE, anonymous_connect |-> TRUE, anonymous_announce |-> TRUE,
               anonymous_scrape |-> TRUE, daemon |-> TRUE, debug |-> FALSE, full_scrape |-> FALSE,
               gzip_debug |-> TRUE, gzip_scrape |-> TRUE, log_access |-> FALSE, log_announce |-> FALSE,
               log_scrape |-> FALSE],
   int    |-> [announce_interval |-> 1800, clean_up_interval |-> 60, read_config_interval |-> 60,
               read_db_interval |-> 60, scrape_interval |-> 0, write_db_interval |-> 15],
   \* The columns, the tables and the access to the database are strings like these.
   string |-> [offline_message |-> <<>>, redirect_url |-> <<>>, mysql_user |-> <<>>,
               mysql_table_prefix |-> <<Folder.xbt>>, torrent_pass_private_key |-> <<>>],
   sets   |-> [listen_ipa |-> {}, listen_port |-> {}]]

\* The folders of the client are below the home of the user, if there is one.
AtStart(home) ==
  IF home = <<>> THEN ClientTable
  ELSE LET below(f) == home \o <<Slash, Folder.XBT, Slash, f>>
       IN [ClientTable EXCEPT !.string.completes_dir = below(Folder.Completes),
                              !.string.incompletes_dir = below(Folder.Incompletes),
                              !.string.torrents_dir = below(Folder.Torrents)]

-----------------------------------------------------------------------------
\* set: the name is looked for among the strings, the numbers and the switches; a value
\* that is no number is 0, and a switch that is off.
Set(c, name, value) ==
  CASE name \in DOMAIN c.string -> [c EXCEPT !.string[name] = value]
    [] name = "listen_ipa" /\ name \in DOMAIN c.sets ->
         IF value = <<42>> THEN c ELSE [c EXCEPT !.sets[name] = @ \cup {value}]
    [] name \in DOMAIN c.int  -> [c EXCEPT !.int[name] = Number(value, 1)]
    [] name = "listen_port" /\ name \in DOMAIN c.sets -> [c EXCEPT !.sets[name] = @ \cup {Number(value, 1)}]
    [] name \in DOMAIN c.bool -> [c EXCEPT !.bool[name] = Number(value, 1) # 0]
    [] OTHER -> c

Trim(s) ==
  LET S == {k \in DOMAIN s : s[k] \notin Blanks}
  IN IF S = {} THEN <<>> ELSE SubSeq(s, Min(S), Max(S))

\* load: the lines with a name before the first =; a # is a part of the name, which is
\* then unknown.
Load(c, lines) ==
  FoldLeft(LAMBDA d, l : IF l.off THEN d ELSE Set(d, l.name, Trim(l.value)), c, lines)

\* save: what has the value of the table is off.
SaveMap(values, table) ==
  FoldSet(LAMBDA n, lines : Append(lines, [off |-> values[n] = table[n], name |-> n,
                                           value |-> <<Space>> \o values[n]]),
          <<>>, DOMAIN values)
BoolTexts(f) == [n \in DOMAIN f |-> Digits(IF f[n] THEN 1 ELSE 0)]
IntTexts(f)  == [n \in DOMAIN f |-> Digits(f[n])]
Save(c) ==
  SaveMap(BoolTexts(c.bool), BoolTexts(ClientTable.bool))
  \o SaveMap(IntTexts(c.int), IntTexts(ClientTable.int))
  \o SaveMap(c.string, ClientTable.string)

\* read_config of the tracker: from nothing but the table, the rows of the database and the
\* file; what was read before stays if that fails.  A key is made if there is none.
WithListeners(c) ==
  [c EXCEPT !.sets.listen_ipa = IF @ = {} THEN {<<0>>} ELSE @,
            !.sets.listen_port = IF @ = {} THEN {2710} ELSE @]
ReadConfig(c, use_sql, rows, file, fails, key) ==
  LET name == "torrent_pass_private_key"
      read == Load(IF use_sql THEN Load(TrackerTable, rows) ELSE TrackerTable, file)
      keyed == IF use_sql /\ read.string[name] = <<>> THEN [read EXCEPT !.string[name] = key] ELSE read
  IN WithListeners(IF fails THEN c ELSE keyed)
\* The row it puts into the database for a key it made.
KeyRow(rows, file, key) ==
  LET name == "torrent_pass_private_key"
  IN IF Load(Load(TrackerTable, rows), file).string[name] = <<>>
     THEN Append(rows, [off |-> FALSE, name |-> name, value |-> key]) ELSE rows

-----------------------------------------------------------------------------
\* The setters of the client that change what they are given.
Put(c, name, v) ==
  CASE name \in {"admin_port", "peer_port", "upload_rate", "upload_slots"} -> [c EXCEPT !.int[name] = Greater(0, v)]
    [] name = "seeding_ratio" -> [c EXCEPT !.int[name] = IF v = 0 THEN 0 ELSE Greater(100, v)]
    [] name \in {"peer_limit", "torrent_limit"} -> [c EXCEPT !.int[name] = v]
    [] name \in DOMAIN c.string -> [c EXCEPT !.string[name] = v]
    [] name \in DOMAIN c.bool   -> [c EXCEPT !.bool[name] = v]

Dirs == {"completes_dir", "incompletes_dir", "torrents_dir"}
Options ==
  <<"admin_port", "bind_before_connect", "completes_dir", "incompletes_dir", "torrents_dir", "peer_id_prefix",
    "peer_limit", "peer_port", "public_ipa", "seeding_ratio", "send_stop_event", "torrent_limit", "upload_rate",
    "upload_slots", "upnp", "user_agent">>

BackwardSlashes(s) == [k \in DOMAIN s |-> IF s[k] = Slash THEN 92 ELSE s[k]]

\* set and get of the dialog: what it shows of c, where ports are those that are open now,
\* and what it gives back for that.  The rate is in kilobytes.
Show(c, open) ==
  [name \in ToSet(Options) |->
     CASE name \in DOMAIN open -> open[name]
       [] name \in Dirs -> BackwardSlashes(c.string[name])
       [] name = "upload_rate" -> c.int[name] \div 1024
       [] name \in DOMAIN c.int -> c.int[name]
       [] name \in DOMAIN c.bool -> c.bool[name]
       [] OTHER -> c.string[name]]
Get(shown) == [shown EXCEPT !.upload_rate = 1024 * @]

\* OnToolsOptions, when OK is pressed.
PressOk(c, shown) == FoldLeft(LAMBDA d, name : Put(d, name, Get(shown)[name]), c, Options)

-----------------------------------------------------------------------------
(* Properties.                                                             *)

\* What the client saves when it stops it has when it starts again, blanks around a text
\* apart: but a folder that has the name the table gives it is lost for the one below the
\* home of the user, because save() takes it for what it is without any file
\* (config_base.h:103, config.cpp:86-89).
SettingsKept(c, home) ==
  LET d == Load(AtStart(home), Save(c)) IN
  /\ d.bool = c.bool /\ d.int = c.int
  /\ \A name \in DOMAIN c.string :
       d.string[name] = IF c.string[name] = ClientTable.string[name] THEN AtStart(home).string[name]
                        ELSE Trim(c.string[name])

\* Reading the settings of the tracker again changes nothing if nothing has changed, also
\* not the key of the torrent passes, which is made once; a read that fails changes nothing;
\* and nothing is left of what a line said that is gone.
ReloadSettles(use_sql, rows, file, more) ==
  LET start == WithListeners(TrackerTable)
      c == ReadConfig(start, use_sql, rows, file, FALSE, <<1>>)
      after == IF use_sql THEN KeyRow(rows, file, <<1>>) ELSE rows
      d == ReadConfig(c, use_sql, after, file \o more, FALSE, <<2>>)
  IN /\ ReadConfig(c, use_sql, after, file, FALSE, <<2>>) = c
     /\ ReadConfig(d, use_sql, after, file, FALSE, <<2>>) = c
     /\ ReadConfig(d, use_sql, rows, file, TRUE, <<3>>) = d

\* OK in the dialog of the options changes nothing that was not changed there but the
\* slashes of the folders and the part of a kilobyte in the rate; a limit below a kilobyte
\* becomes no limit (dlg_options.cpp:131).  That is so once: a second OK changes nothing.
OptionsKept(c) ==
  LET open == [admin_port |-> c.int.admin_port, peer_port |-> c.int.peer_port]
      once == PressOk(c, Show(c, open))
  IN /\ once.bool = c.bool
     /\ \A name \in DOMAIN c.int \ {"upload_rate"} : once.int[name] = c.int[name]
     /\ c.int.upload_rate - once.int.upload_rate \in 0..1023
     /\ \A name \in DOMAIN c.string \ Dirs : once.string[name] = c.string[name]
     /\ PressOk(once, Show(once, open)) = once
=============================================================================
