------------------------------- MODULE Upkeep --------------------------------
(***************************************************************************)
(* What goes on beside the turns: the database file and its retention      *)
(* (Store), where messages and their files are kept (Filing), what is      *)
(* made of a room's history (Summaries), memories and documents            *)
(* (Knowledge), the admin console and the registry it reloads (Console),   *)
(* what roles allow (Privileges), what is told of the program's health     *)
(* (Health), the agenda, its tasks and its calendar (Tasks), how what is   *)
(* typed reaches a tool (Commands), the programs that are run (Programs).  *)
(* They meet in the database only; a scene plays one of them.              *)
(***************************************************************************)
EXTENDS Store, Filing, Summaries, Knowledge, Console, Privileges, Health, Tasks, Commands, Programs

vars == <<stage, storeVars, filingVars, mediaVars, summaryVars, knowledgeVars, retentionVars, consoleVars, privilegeVars, healthVars, tasksVars, calendarVars, commandVars, programsVars>>

Init ==
  /\ StageInit /\ StoreInit /\ RetentionInit /\ FilingInit /\ MediaInit /\ SummariesInit /\ KnowledgeInit /\ ConsoleInit
  /\ PrivilegesInit /\ HealthInit /\ TasksInit /\ CalendarInit /\ CommandsInit /\ ProgramsInit

Next ==
  /\ UNCHANGED scene
  /\ \/ scene.part = "store" /\ StoreNext /\ UNCHANGED <<filingVars, mediaVars, summaryVars, knowledgeVars, retentionVars, consoleVars, privilegeVars, healthVars, tasksVars, calendarVars, commandVars, programsVars>>
     \/ scene.part = "filing" /\ FilingNext /\ UNCHANGED <<storeVars, mediaVars, summaryVars, knowledgeVars, retentionVars, consoleVars, privilegeVars, healthVars, tasksVars, calendarVars, commandVars, programsVars>>
     \/ scene.part = "media" /\ MediaNext /\ UNCHANGED <<storeVars, filingVars, summaryVars, knowledgeVars, retentionVars, consoleVars, privilegeVars, healthVars, tasksVars, calendarVars, commandVars, programsVars>>
     \/ scene.part = "summary" /\ SummariesNext /\ UNCHANGED <<storeVars, filingVars, mediaVars, knowledgeVars, retentionVars, consoleVars, privilegeVars, healthVars, tasksVars, calendarVars, commandVars, programsVars>>
     \/ scene.part = "memory" /\ KnowledgeNext /\ UNCHANGED <<storeVars, filingVars, mediaVars, summaryVars, retentionVars, consoleVars, privilegeVars, healthVars, tasksVars, calendarVars, commandVars, programsVars>>
     \/ scene.part = "retention" /\ RetentionNext /\ UNCHANGED <<storeVars, filingVars, mediaVars, summaryVars, knowledgeVars, consoleVars, privilegeVars, healthVars, tasksVars, calendarVars, commandVars, programsVars>>
     \/ scene.part = "console" /\ ConsoleNext /\ UNCHANGED <<storeVars, filingVars, mediaVars, summaryVars, knowledgeVars, retentionVars, privilegeVars, healthVars, tasksVars, calendarVars, commandVars, programsVars>>
     \/ scene.part = "privileges" /\ PrivilegesNext /\ UNCHANGED <<storeVars, filingVars, mediaVars, summaryVars, knowledgeVars, retentionVars, consoleVars, healthVars, tasksVars, calendarVars, commandVars, programsVars>>
     \/ scene.part = "health" /\ HealthNext /\ UNCHANGED <<storeVars, filingVars, mediaVars, summaryVars, knowledgeVars, retentionVars, consoleVars, privilegeVars, tasksVars, calendarVars, commandVars, programsVars>>
     \/ scene.part = "tasks" /\ TasksNext /\ UNCHANGED <<storeVars, filingVars, mediaVars, summaryVars, knowledgeVars, retentionVars, consoleVars, privilegeVars, healthVars, calendarVars, commandVars, programsVars>>
     \/ scene.part = "calendar" /\ CalendarNext /\ UNCHANGED <<storeVars, filingVars, mediaVars, summaryVars, knowledgeVars, retentionVars, consoleVars, privilegeVars, healthVars, tasksVars, commandVars, programsVars>>
     \/ scene.part = "commands" /\ CommandsNext /\ UNCHANGED <<storeVars, filingVars, mediaVars, summaryVars, knowledgeVars, retentionVars, consoleVars, privilegeVars, healthVars, tasksVars, calendarVars, programsVars>>
     \/ scene.part = "programs" /\ ProgramsNext /\ UNCHANGED <<storeVars, filingVars, mediaVars, summaryVars, knowledgeVars, retentionVars, consoleVars, privilegeVars, healthVars, tasksVars, calendarVars, commandVars>>

Spec == Init /\ [][Next]_vars
=============================================================================
