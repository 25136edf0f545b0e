---------------------------- MODULE ObjectReads ----------------------------
(***************************************************************************)
(* Reading an instance of the objects Security (/0), Device (/3),          *)
(* Connectivity monitoring (/4), Firmware (/5), Location (/6) and          *)
(* Connectivity statistics (/7), and discovering /3.  The read functions   *)
(* are one loop over the resources asked for, up to the first that is      *)
(* refused; they differ in what a getter knows and in the list a read of   *)
(* the whole object uses.                                                  *)
(***************************************************************************)
EXTENDS Naturals, Sequences

\* single: resources with one value; count[r]: the instances of a multiple
\* resource; closed: resources a getter refuses with 4.05; full: the list that
\* stands for the whole object.
Getter(single, multiple, count, closed, full) ==
    [single |-> single, count |-> [r \in multiple |-> count], closed |-> closed, full |-> full]

\* object_device.cpp: power sources have two instances, the error code one.
DeviceCounts == [r \in {6, 7, 8, 11} |-> IF r = 11 THEN 1 ELSE 2]

\* A full list that takes the executable Reboot (4) along.
DeviceListWithReboot == <<0, 1, 2, 3, 4, 6, 7, 8, 9, 10, 11, 13, 14, 15, 16>>

\* The list in prv_device_read leaves out what can only be executed.
DeviceList == <<0, 1, 2, 3, 6, 7, 8, 9, 10, 11, 13, 14, 15, 16>>

DeviceGetter ==
    [single |-> {0, 1, 2, 3, 9, 10, 13, 14, 15, 16}, count |-> DeviceCounts,
     closed |-> {4, 5, 12}, full |-> DeviceList]

\* prv_device_discover knows the executable resources, too.
DeviceDiscovered == 0..16

\* object_connectivity_moni.cpp: one instance of each of its multiple resources.
MonitoringList == <<0, 1, 2, 3, 4, 5, 6, 7, 8, 9, 10>>
MonitoringGetter == Getter({0, 2, 3, 6, 8, 9, 10}, {1, 4, 5, 7}, 1, {}, MonitoringList)

\* object_firmware.cpp: the protocols up to the first that is not set; with
\* none, CoAP is reported as instance 0.
FirmwareList == <<3, 5, 6, 7, 8, 9>>
FirmwareGetter(protocols) ==
    Getter({3, 5, 6, 7, 9}, {8}, IF protocols = 0 THEN 1 ELSE protocols, {0, 1, 2}, FirmwareList)

\* object_security.cpp: one value of each of its thirteen resources, also of those
\* that the mode does not use.
SecurityList == <<0, 1, 2, 3, 4, 5, 6, 7, 8, 9, 10, 11, 12>>
SecurityGetter == Getter(0..12, {}, 0, {}, SecurityList)

\* object_location.cpp and object_connectivity_stat.cpp: single resources only.
LocationList == <<0, 1, 2, 3, 4, 5, 6>>
LocationGetter == Getter(0..6, {}, 0, {}, LocationList)

StatisticsList == <<0, 1, 2, 3, 4, 5>>
StatisticsGetter == Getter(0..5, {}, 0, {}, StatisticsList)

\* A resource asked for: the whole resource, or some of its instances.
Whole(r)         == [res |-> r, multiple |-> FALSE, ids |-> {}]
Part(r, ids)     == [res |-> r, multiple |-> TRUE, ids |-> ids]

\* What the getter returns for one of them.
ReadCode(getter, item) ==
    CASE item.res \in getter.closed -> 405
      [] item.res \in getter.single -> IF item.multiple THEN 404 ELSE 205
      [] item.res \in DOMAIN getter.count ->
             IF \A i \in item.ids : i < getter.count[item.res] THEN 205 ELSE 404
      [] OTHER -> 404

\* The read functions: the first refusal is the answer.
ReadAnswer(getter, request) ==
    LET items   == IF request = <<>>
                     THEN [k \in DOMAIN getter.full |-> Whole(getter.full[k])]
                     ELSE request
        refused == {k \in DOMAIN items : ReadCode(getter, items[k]) # 205}
    IN  IF refused = {} THEN 205
        ELSE ReadCode(getter, items[CHOOSE k \in refused : \A m \in refused : k <= m])

\* prv_device_discover.
DiscoverAnswer(request) ==
    IF \A k \in DOMAIN request : request[k].res \in DeviceDiscovered THEN 205 ELSE 404
=============================================================================
