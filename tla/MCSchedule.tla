---------------------------- MODULE MCSchedule ----------------------------
(* Schedules for TLC: every step, every kind of field, values within and just outside limits. *)
EXTENDS Schedule

Cron(minute, hour, dom, month, dow) ==
    [kind |-> "cron",
     cron |-> [minute |-> minute, hour |-> hour, dom |-> dom, month |-> month, dow |-> dow]]

MinuteFields ==
    {Any, Num(0), Num(30), Num(59), Num(60), Every(5, 10), List({<<0, 0>>, <<30, 30>>})}
        \union {Every(Star, by) : by \in 0 .. 60}
HourFields ==
    {Any, Num(0), Num(23), Num(24), Every(24, 1), Every(8, 2), Every(5, 12), Every(1, 2),
     Every(20, 23), List({<<8, 18>>})} \union {Every(Star, by) : by \in 0 .. 24}
DomFields ==
    {Any, Num(0), Num(1), Num(29), Num(30), Num(31), Num(32), Every(Star, 2),
     List({<<1, 1>>, <<15, 15>>})}
MonthFields ==
    {Any, Num(0), Num(2), Num(12), Num(13), Every(Star, 2), List({<<4, 6>>}), List({<<11, 2>>}),
     List({<<1, 1>>, <<3, 3>>})}
DowFields ==
    {Any, Num(0), Num(6), Num(7), Num(8), Every(Star, 2), List({<<1, 5>>}), List({<<5, 7>>}),
     List({<<5, 0>>}), List({<<0, 7>>}), List({<<1, 1>>, <<3, 3>>})}

SomeDates == {<<Any, Any, Any>>, <<Num(1), Any, Any>>, <<Any, Any, Num(1)>>}

MCConfigs ==
    {Cron(minute, hour, date[1], date[2], date[3]) :
        minute \in MinuteFields, hour \in HourFields, date \in SomeDates}
    \union
    {Cron(Num(59), Num(23), dom, month, dow) :
        dom \in DomFields, month \in MonthFields, dow \in DowFields}
    \union
    [kind : {"daily"}, at : {-1, 0, 1439, 1440}, every : {0, 1, 2, 365, 366}]
    \union
    [kind : {"weekly"}, at : {0, 1440}, every : {0, 1, 52, 53}, days : {{}, {1}, {2, 7}, 1 .. 7}]
    \union
    [kind : {"monthly"}, at : {0, 1440}, day : {LastDay, 0, 1, 28, 29, 30, 31, 32},
     months : {{}, {2}, {4}, {1, 2}, {1, 3}, 1 .. 12}]
    \union
    [kind : {"interval"}, unit : {"MINUTE", "HOURLY"}, every : {0, 1, 23, 24, 1439, 1440},
     at : {0, 1439, 1440}]
    \union
    [kind : {"event"}, sc : {"ONLOGON", "ONSTART"},
     delay : {0, 59, 60, MaxTriggerDelay, MaxTriggerDelay + 1}]
=============================================================================
