---------------------------- MODULE MCMatchup ----------------------------
(***************************************************************************)
(* Encounters between the champions of the modules Kits... at level 13     *)
(* without items.  Their attack intervals, lines, role priorities and      *)
(* times of arrival over 650 units are those of the locked patch data.     *)
(***************************************************************************)
EXTENDS MatchupProperties, TLC,
        KitsAtoE, KitsFtoK, KitsLtoM, KitsNtoQ, KitsR, KitsS, KitsT, KitsUtoZ

PlanOf(c, p) ==
  CASE c \in ChampionsAtoE -> KitsAtoEPlan(c, p)
    [] c \in ChampionsFtoK -> KitsFtoKPlan(c, p)
    [] c \in ChampionsLtoM -> KitsLtoMPlan(c, p)
    [] c \in ChampionsNtoQ -> KitsNtoQPlan(c, p)
    [] c \in ChampionsR -> KitsRPlan(c, p)
    [] c \in ChampionsS -> KitsSPlan(c, p)
    [] c \in ChampionsT -> KitsTPlan(c, p)
    [] c \in ChampionsUtoZ -> KitsUtoZPlan(c, p)

Champions == UNION {ChampionsAtoE, ChampionsFtoK, ChampionsLtoM,
                    ChampionsNtoQ, ChampionsR, ChampionsS,
                    ChampionsT, ChampionsUtoZ}

(* Champion, attack interval, front line, role priority, arrival. *)
Table == {
  <<"Aatrox", 1206, TRUE, 4, 1377>>, <<"Ahri", 1222, FALSE, 1, 304>>,
  <<"Akali", 1185, TRUE, 2, 1189>>, <<"Amumu", 1126, TRUE, 3, 1568>>,
  <<"Annie", 1422, FALSE, 1, 55>>, <<"Azir", 995, FALSE, 0, 379>>,
  <<"Brand", 1223, FALSE, 1, 295>>, <<"Chogath", 1322, TRUE, 1, 1522>>,
  <<"Corki", 1188, FALSE, 0, 308>>, <<"Darius", 1442, TRUE, 4, 1398>>,
  <<"DrMundo", 1116, TRUE, 4, 1227>>, <<"Ekko", 1094, TRUE, 1, 1545>>,
  <<"Evelynn", 1219, TRUE, 1, 1568>>, <<"Galio", 1374, TRUE, 1, 1471>>,
  <<"Gragas", 1227, TRUE, 1, 1591>>, <<"Illaoi", 1256, TRUE, 4, 1500>>,
  <<"Ivern", 1132, FALSE, 1, 531>>, <<"Janna", 1204, FALSE, 1, 280>>,
  <<"Jax", 1142, TRUE, 4, 1500>>, <<"Jayce", 1144, TRUE, 0, 1568>>,
  <<"Jhin", 1600, FALSE, 0, 304>>, <<"KSante", 1164, TRUE, 4, 1516>>,
  <<"Kalista", 965, FALSE, 0, 379>>, <<"Karma", 1278, FALSE, 1, 273>>,
  <<"Kayle", 1361, TRUE, 0, 1037>>, <<"Kayn", 1154, TRUE, 2, 1398>>,
  <<"Kennen", 1134, FALSE, 1, 272>>, <<"Khazix", 1155, TRUE, 2, 1522>>,
  <<"Kindred", 1157, FALSE, 0, 462>>, <<"Kled", 1157, TRUE, 4, 1522>>,
  <<"KogMaw", 1166, FALSE, 0, 455>>, <<"Leblanc", 1315, FALSE, 1, 368>>,
  <<"LeeSin", 1156, TRUE, 2, 1522>>, <<"Leona", 1214, TRUE, 3, 1568>>,
  <<"Lux", 1144, FALSE, 1, 304>>, <<"Malphite", 1027, TRUE, 1, 1568>>,
  <<"Maokai", 1040, TRUE, 3, 1091>>, <<"Milio", 1204, FALSE, 1, 316>>,
  <<"Mordekaiser", 1442, TRUE, 1, 1418>>, <<"Morgana", 1370, FALSE, 1, 437>>,
  <<"Naafiri", 1240, TRUE, 2, 1287>>, <<"Nami", 1208, FALSE, 1, 233>>,
  <<"Nasus", 1135, TRUE, 4, 1500>>, <<"Nautilus", 1294, TRUE, 3, 1462>>,
  <<"Orianna", 1099, FALSE, 1, 280>>, <<"Ornn", 1313, TRUE, 5, 1418>>,
  <<"Qiyana", 1202, TRUE, 2, 1493>>, <<"Quinn", 1118, FALSE, 0, 379>>,
  <<"Rakan", 1185, TRUE, 3, 1045>>, <<"Rammus", 1174, TRUE, 5, 1568>>,
  <<"Rell", 1313, TRUE, 3, 1508>>, <<"Renata", 1300, FALSE, 1, 304>>,
  <<"Rengar", 1129, TRUE, 2, 1522>>, <<"Rumble", 1291, TRUE, 1, 1522>>,
  <<"Samira", 1116, FALSE, 0, 448>>, <<"Sejuani", 1078, TRUE, 5, 1471>>,
  <<"Senna", 1353, FALSE, 0, 152>>, <<"Seraphine", 1241, FALSE, 1, 379>>,
  <<"Shaco", 1085, TRUE, 2, 1522>>, <<"Shen", 1036, TRUE, 5, 1545>>,
  <<"Shyvana", 1286, TRUE, 4, 1429>>, <<"Singed", 1205, TRUE, 1, 1522>>,
  <<"Sion", 1289, TRUE, 4, 1377>>, <<"Sivir", 1361, FALSE, 0, 448>>,
  <<"Smolder", 1090, FALSE, 0, 304>>, <<"Sona", 1240, FALSE, 1, 308>>,
  <<"Soraka", 1296, FALSE, 1, 308>>, <<"Swain", 1300, FALSE, 1, 379>>,
  <<"Sylas", 1121, TRUE, 1, 1398>>, <<"Syndra", 1258, FALSE, 1, 304>>,
  <<"TahmKench", 1193, TRUE, 3, 1418>>, <<"Taliyah", 1331, FALSE, 1, 379>>,
  <<"Talon", 1214, TRUE, 2, 1568>>, <<"Taric", 1313, TRUE, 3, 1471>>,
  <<"Teemo", 1058, FALSE, 0, 367>>, <<"Thresh", 1157, FALSE, 3, 607>>,
  <<"Tristana", 1299, FALSE, 0, 308>>, <<"Tryndamere", 1064, TRUE, 2, 1377>>,
  <<"TwistedFate", 1245, FALSE, 0, 379>>, <<"Twitch", 1109, FALSE, 0, 304>>,
  <<"Urgot", 1134, FALSE, 4, 910>>, <<"Varus", 1099, FALSE, 0, 228>>,
  <<"Veigar", 1285, FALSE, 1, 295>>, <<"Velkoz", 1330, FALSE, 1, 368>>,
  <<"Vex", 1356, FALSE, 1, 299>>, <<"Vi", 1274, TRUE, 2, 1545>>,
  <<"Viego", 1168, TRUE, 2, 1305>>, <<"Vladimir", 1247, FALSE, 1, 607>>,
  <<"Xerath", 1331, FALSE, 1, 368>>, <<"XinZhao", 1121, TRUE, 4, 1377>>,
  <<"Yasuo", 1048, TRUE, 2, 1377>>, <<"Yorick", 1313, TRUE, 4, 1398>>,
  <<"Yunara", 1262, FALSE, 0, 231>>, <<"Yuumi", 1442, FALSE, 1, 682>>,
  <<"Zaahen", 1256, TRUE, 4, 1377>>, <<"Zac", 1180, TRUE, 4, 1398>>,
  <<"Zed", 1128, TRUE, 2, 1522>>, <<"Zeri", 1258, FALSE, 0, 304>>,
  <<"Ziggs", 1251, FALSE, 1, 308>>, <<"Zilean", 1244, FALSE, 1, 299>>,
  <<"Zoe", 1206, FALSE, 1, 295>>, <<"Zyra", 1212, FALSE, 1, 221>>}

Row == [c \in Champions |-> CHOOSE r \in Table : r[1] = c]

(* Champion c with some haste and tenacity, joining the fight at contact. *)
Fighter(c, haste, tenacity, contact) ==
  [kit |-> PlanOf(c, [duration |-> Duration, haste |-> haste, interval |-> Row[c][2]]),
   tenacity |-> tenacity, melee |-> Row[c][3], priority |-> Row[c][4], contact |-> contact]

Roster == [c \in Champions |-> Fighter(c, 0, 0, 0)]
Tough  == [c \in Champions |-> [Roster[c] EXCEPT !.tenacity = 30]]
Late   == [c \in Champions |-> [Roster[c] EXCEPT !.contact = Row[c][5]]]
Absent == [c \in Champions |-> [Roster[c] EXCEPT !.contact = Never]]

Versus(actors, opponents) == [actors |-> actors, opponents |-> opponents]

(* Every champion against every other one, and against itself. *)
Duels == {Versus(<<Roster[c]>>, <<Roster[d]>>) : c, d \in Champions}

(* Two against two, the second of each side on its way. *)
Leads   == {"Amumu", "Nasus", "Leona", "Ornn"}
Seconds == {"Malphite", "Annie", "Brand", "Ornn", "XinZhao"}
Pairs ==
  {Versus(<<Roster[c], d>>, <<Tough[e], f>>) :
     c, e \in Leads, d \in {Late[x] : x \in Seconds}, f \in {Late[x] : x \in Seconds}}

(* Two or three against the same: of three, those who follow fight one another. *)
Fronts == {"Amumu", "Leona", "Malphite", "Ornn", "Rammus", "Sejuani", "Shen"}
ToughAndLate == [c \in Champions |-> [Late[c] EXCEPT !.tenacity = 30]]
Mirrors ==
  {Versus(side, side) :
     side \in {<<Tough[c], ToughAndLate[d]>> : c \in Leads, d \in Seconds}
       \cup {<<Tough[c], Tough[d], ToughAndLate[e]>> : c \in {"Annie", "Ornn"}, d, e \in Fronts}}

(* A second who is never there, or whom an immunity guards against the second of *)
(* the other side.                                                               *)
Guests ==
  {Versus(side, <<Roster[c], d>>) :
     c \in Leads, side \in {<<Roster[x]>> : x \in Leads}, d \in {Absent["Brand"]}}
  \cup {Versus(<<Roster["Annie"], Roster["Ornn"]>>, <<Roster[c], Roster[d]>>) :
          c \in Leads, d \in {"Nautilus", "TahmKench", "Zac"}}

(* TLC computes this union once, and would compute its substitute in every state. *)
Encounters == Duels \cup Pairs \cup Mirrors \cup Guests

MCLineups == Encounters

(* Amumu against Cho'Gath with more and more haste. *)
MCHastedLineups ==
  {Versus(<<Roster["Amumu"]>>, <<Fighter("Chogath", haste, 0, 0)>>) : haste \in 0 .. 80}

(* Champions who control with attacks, against those who slow attacks. *)
MCSlowedLineups ==
  {Versus(<<Roster[c]>>, <<Roster[d]>>) : c \in {"Malphite", "Nasus"}, d \in {"Leona", "XinZhao"}}
==============================================================================
