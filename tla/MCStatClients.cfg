CONSTANTS
  Cells = {1}
  MaxConnections = 2
SPECIFICATION Spec
PROPERTY ReviewFindsNewClients
