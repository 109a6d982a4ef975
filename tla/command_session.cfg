SPECIFICATION CommandSpec
CONSTANT MaxCommands = 1
PROPERTIES SubscriptionsRestored
