SPECIFICATION CommandSpec
CONSTANT MaxCommands = 3
INVARIANTS CommandTypeOK NoCommandVanishes NewestHasTheLastWord
PROPERTIES AckedStaysDone KeepsCommandContract KeptCommandActs
